---- MODULE Spec2Model ----
(***************************************************************************)
(* Model of the consolidation engine of the InfluxDB v1 data cleaner       *)
(* (src/cleaner_core.py) and of the handlers of src/influx_cleaner.py that *)
(* drive it.                                                               *)
(*                                                                         *)
(* The time-series store is a function from measurement names to sets of   *)
(* rows; a row is [time, tags, fields] and is identified inside its        *)
(* measurement by (time, tags), as in InfluxDB.  Every public method of    *)
(* InfluxDBCleaner is one action.  The calls an invocation makes on the    *)
(* store client and on the export file are logged, in program order, in    *)
(* `calls`; the set `fails` of the invocation says which of these calls    *)
(* (by ordinal) raise an exception.                                        *)
(***************************************************************************)
EXTENDS Integers, Sequences, FiniteSets, TLC

VARIABLES
    store,      \* measurement name -> set of rows held by the store
    backups,    \* measurement name -> the latest export artifact written for it
    calls,      \* store / export calls of the last invocation, in program order
    written,    \* the batches merge and split passed to write_points, in order
    last,       \* the last invocation: operation, arguments, returned value
    pre,        \* the store as it was when the last invocation started
    par         \* the run of analyze_measurements_parallel in progress, if any

vars == <<store, backups, calls, written, last, pre, par>>

-----------------------------------------------------------------------------
(* Bounds and input sets                                                   *)

\* at most this many calls of one invocation raise an exception
MaxFaults == 1

Names == {"a", "b"}

\* aggregation types offered as input: a valid one and an invalid one
AggregationInputs == {"hourly", "yearly"}

\* keys of the `intervals` dictionary of aggregate_old_data
IntervalKeys == {"hourly", "daily", "weekly", "monthly"}

AggregatedName(measurement, aggregation) == measurement \o "_agg_" \o aggregation

\* the measurement names of the model, in the lexical order of SHOW MEASUREMENTS
NameOrder ==
    <<"B_raw", "a", "a_agg_daily", "a_agg_hourly", "a_h", "a_k", "b", "b_agg_hourly", "c",
      "cpu_load", "kitchen_temp", "m", "m2", "m3", "temp_kitchen", "temp_kitchen_old">>

Measurements == {NameOrder[i] : i \in 1..Len(NameOrder)}

\* rows the store may hold initially: time is in hours since the epoch
OldMarked    == [time |-> 0,  tags |-> [tag_loc |-> 1], fields |-> [value |-> 1]]
RecentMarked == [time |-> 30, tags |-> [tag_loc |-> 1], fields |-> [value |-> 1]]
OldPlain     == [time |-> 1,  tags |-> [host |-> 1],    fields |-> [value |-> 1]]

\* an aggregated row, as an earlier aggregation run leaves it in a target
OldAggregated == [time |-> 0, tags |-> [tag_loc |-> 1], fields |-> [value |-> 1]]

\* cutoff instants (hours since the epoch) offered as input
Cutoffs == {2, 40}

\* the fault choices of an invocation that makes at most n calls
FaultSets(n) == {F \in SUBSET (1..n) : Cardinality(F) <= MaxFaults}

NoBackup == [measurement |-> "", data_points |-> 0, data |-> << >>]

\* no parallel analysis has been started
ParIdle == [phase |-> "idle"]

-----------------------------------------------------------------------------
(* The store gateway                                                       *)

FieldKeys(rows) == UNION {DOMAIN r.fields : r \in rows}

TagKeys(rows) == UNION {DOMAIN r.tags : r \in rows}

\* a tag key that is also a field key of the measurement is returned as key_1
TagColumn(k, rows) == IF k \in FieldKeys(rows) THEN k \o "_1" ELSE k

\* one row as the dictionary get_points() yields for SELECT *
Point(r, rows) ==
    LET tagcols == {TagColumn(k, rows) : k \in DOMAIN r.tags}
        tagof(c) == CHOOSE k \in DOMAIN r.tags : TagColumn(k, rows) = c
    IN  [c \in {"time"} \cup DOMAIN r.fields \cup tagcols |->
            IF c = "time" THEN r.time
            ELSE IF c \in DOMAIN r.fields THEN r.fields[c]
            ELSE r.tags[tagof(c)]]

RECURSIVE ByTime(_)
\* a set of rows as a list in ascending time
ByTime(rows) ==
    IF rows = {} THEN << >>
    ELSE LET first == CHOOSE r \in rows : \A q \in rows : r.time <= q.time
         IN  <<first>> \o ByTime(rows \ {first})

\* SELECT * FROM "m": the list of points
SelectAll(st, m) ==
    LET ordered == ByTime(st[m])
    IN  [i \in 1..Len(ordered) |-> Point(ordered[i], st[m])]

\* one point written into a set of rows: same (time, tags) overwrites fields
Upsert(rows, p) ==
    LET same == {r \in rows : r.time = p.time /\ r.tags = p.tags}
        old  == CHOOSE r \in same : TRUE
        merged == [k \in DOMAIN old.fields \cup DOMAIN p.fields |->
                      IF k \in DOMAIN p.fields THEN p.fields[k] ELSE old.fields[k]]
    IN  IF same = {}
        THEN rows \cup {[time |-> p.time, tags |-> p.tags, fields |-> p.fields]}
        ELSE (rows \ same) \cup {[time |-> p.time, tags |-> p.tags, fields |-> merged]}

RECURSIVE WriteRows(_, _)
\* write_points: the points of the list are applied in order
WriteRows(st, pts) ==
    IF pts = << >> THEN st
    ELSE LET p == Head(pts)
         IN  WriteRows([st EXCEPT ![p.measurement] = Upsert(@, p)], Tail(pts))

\* DROP MEASUREMENT "m"
DropRows(st, m) == [st EXCEPT ![m] = {}]

\* a DELETE that also takes the rows at the cutoff
DeleteOlderInclusive(st, m, cutoff) == [st EXCEPT ![m] = {r \in @ : r.time > cutoff}]

\* DELETE FROM "m" WHERE time < cutoff
DeleteOlder(st, m, cutoff) == [st EXCEPT ![m] = {r \in @ : r.time >= cutoff}]

\* SHOW MEASUREMENTS: the names that hold rows
ShowMeasurements(st) == SelectSeq(NameOrder, LAMBDA m : st[m] # {})

-----------------------------------------------------------------------------
(* Invocation context: the store, the artifacts, the call log, the faults  *)

Context(st, bk, F) ==
    [store |-> st, backups |-> bk, calls |-> << >>, written |-> << >>, fails |-> F]

\* does the next call of the invocation raise?
Raises(cx) == (Len(cx.calls) + 1) \in cx.fails

Logged(cx, kind, m, ok, n) ==
    [cx EXCEPT !.calls = Append(@, [kind |-> kind, m |-> m, ok |-> ok, n |-> n])]

-----------------------------------------------------------------------------
(* backup_measurement, delete_measurement                                  *)

BackupMeasurement(cx, measurement) ==
    IF Raises(cx)
    THEN [cx |-> Logged(cx, "select_all", measurement, FALSE, 0), ret |-> FALSE]
    ELSE LET c1   == Logged(cx, "select_all", measurement, TRUE, 0)
             data == SelectAll(cx.store, measurement)
             rec  == [measurement |-> measurement, data_points |-> Len(data), data |-> data]
         IN  IF Raises(c1)
             THEN [cx |-> Logged(c1, "export", measurement, FALSE, Len(data)), ret |-> FALSE]
             ELSE [cx |-> [Logged(c1, "export", measurement, TRUE, Len(data))
                              EXCEPT !.backups[measurement] = rec],
                   ret |-> TRUE]

\* a drop whose failure is logged and then reported as success
DropMeasurementSilent(cx, measurement) ==
    LET held == Cardinality(cx.store[measurement])
    IN  IF Raises(cx)
        THEN [cx |-> Logged(cx, "drop", measurement, FALSE, held), ret |-> TRUE]
        ELSE [cx |-> [Logged(cx, "drop", measurement, TRUE, held)
                         EXCEPT !.store = DropRows(@, measurement)],
              ret |-> TRUE]

\* the try block of delete_measurement; the log keeps the rows held at the drop
DropMeasurement(cx, measurement) ==
    LET held == Cardinality(cx.store[measurement])
    IN  IF Raises(cx)
        THEN [cx |-> Logged(cx, "drop", measurement, FALSE, held), ret |-> FALSE]
        ELSE [cx |-> [Logged(cx, "drop", measurement, TRUE, held)
                         EXCEPT !.store = DropRows(@, measurement)],
              ret |-> TRUE]

\* a delete_measurement that does not look at the confirmation flag
DeleteUnconfirmed(cx, measurement, confirm) == DropMeasurement(cx, measurement)

DeleteMeasurement(cx, measurement, confirm) ==
    IF ~confirm
    THEN [cx |-> cx, ret |-> FALSE]
    ELSE DropMeasurement(cx, measurement)

-----------------------------------------------------------------------------
(* rename_measurement                                                      *)

\* key.startswith('tag_')
StartsWithTag(key) == Len(key) >= 4 /\ SubSeq(key, 1, 4) = "tag_"

\* the point written under new_name for one fetched point
RenamedPoint(point, new_name) ==
    [measurement |-> new_name,
     time   |-> point["time"],
     fields |-> [k \in {c \in DOMAIN point : c # "time" /\ ~StartsWithTag(c)} |-> point[k]],
     tags   |-> [k \in {c \in DOMAIN point : c # "time" /\ StartsWithTag(c)} |-> point[k]]]

\* a rename that reports success whatever the delete returned
RenameFinishAlways(cx, old_name) ==
    [cx |-> DeleteMeasurement(cx, old_name, TRUE).cx, ret |-> TRUE]

\* delete the old measurement and report: lines 298-306
RenameFinish(cx, old_name) ==
    LET d == DeleteMeasurement(cx, old_name, TRUE)
    IN  [cx |-> d.cx, ret |-> d.ret]

\* a copy that goes on to the delete when the write raised
RenameCopyUnchecked(cx, old_name, new_name) ==
    IF Raises(cx)
    THEN [cx |-> Logged(cx, "select_all", old_name, FALSE, 0), ret |-> FALSE]
    ELSE
      LET c2     == Logged(cx, "select_all", old_name, TRUE, 0)
          points == SelectAll(c2.store, old_name)
          new_points == [i \in 1..Len(points) |-> RenamedPoint(points[i], new_name)]
      IN  IF points = << >> THEN [cx |-> c2, ret |-> FALSE]
          ELSE IF Raises(c2)
          THEN RenameFinish(Logged(c2, "write", new_name, FALSE, Len(new_points)), old_name)
          ELSE RenameFinish([Logged(c2, "write", new_name, TRUE, Len(new_points))
                                EXCEPT !.store = WriteRows(@, new_points)],
                            old_name)

\* fetch, rewrite and write under the new name: lines 264-296
RenameCopy(cx, old_name, new_name) ==
    IF Raises(cx)
    THEN [cx |-> Logged(cx, "select_all", old_name, FALSE, 0), ret |-> FALSE]
    ELSE
      LET c2     == Logged(cx, "select_all", old_name, TRUE, 0)
          points == SelectAll(c2.store, old_name)
          new_points == [i \in 1..Len(points) |-> RenamedPoint(points[i], new_name)]
      IN  IF points = << >> THEN [cx |-> c2, ret |-> FALSE]
          ELSE IF Raises(c2)
          THEN [cx |-> Logged(c2, "write", new_name, FALSE, Len(new_points)), ret |-> FALSE]
          ELSE RenameFinish([Logged(c2, "write", new_name, TRUE, Len(new_points))
                                EXCEPT !.store = WriteRows(@, new_points)],
                            old_name)

\* a rename that goes on to the copy when the backup failed
RenameUngated(cx, old_name, new_name) ==
    RenameCopy(BackupMeasurement(cx, old_name).cx, old_name, new_name)

RenameMeasurement(cx, old_name, new_name) ==
    LET b == BackupMeasurement(cx, old_name)
    IN  IF ~b.ret THEN [cx |-> b.cx, ret |-> FALSE]
        ELSE RenameCopy(b.cx, old_name, new_name)

-----------------------------------------------------------------------------
(* COUNT results and their sums                                         *)

Num(n) == [num |-> TRUE, v |-> n]

Str == [num |-> FALSE, v |-> 0]

\* the points of SELECT COUNT over `rows`: none when there is no row, else one
\* row with a count per field key and, as the client returns it, the 'time'
\* column as a string; time_column = FALSE is a gateway returning counts only
CountPoints(rows, time_column) ==
    IF rows = {} THEN << >>
    ELSE <<[c \in {"count_" \o f : f \in FieldKeys(rows)}
                  \cup (IF time_column THEN {"time"} ELSE {}) |->
              IF c = "time" THEN Str
              ELSE Num(Cardinality({r \in rows : \E f \in DOMAIN r.fields :
                                                       c = "count_" \o f}))]>>

RECURSIVE SumOver(_, _)
SumOver(point, cols) ==
    IF cols = {} THEN 0
    ELSE LET c == CHOOSE x \in cols : TRUE
         IN  point[c].v + SumOver(point, cols \ {c})

\* sum(point.values()) raises TypeError when a value is a string
SumRaises(point) == \E c \in DOMAIN point : ~point[c].num

SumValues(point) == SumOver(point, DOMAIN point)

\* sum(v for v in point.values() if isinstance(v, (int, float)))
SumNumeric(point) == SumOver(point, {c \in DOMAIN point : point[c].num})

RECURSIVE SumNumericAll(_)
SumNumericAll(points) ==
    IF points = << >> THEN 0
    ELSE SumNumeric(Head(points)) + SumNumericAll(Tail(points))

-----------------------------------------------------------------------------
(* clean_low_data_measurements                                             *)

\* a delete branch that drops the measurement whatever the backup returned
BackupThenDeleteUngated(cx, results, measurement) ==
    LET d == DeleteMeasurement(BackupMeasurement(cx, measurement).cx, measurement, TRUE)
    IN  [cx |-> d.cx, results |-> (measurement :> d.ret) @@ results]

\* the delete branch: backup first, delete only after a successful backup
BackupThenDelete(cx, results, measurement) ==
    LET b == BackupMeasurement(cx, measurement)
    IN  IF b.ret
        THEN LET d == DeleteMeasurement(b.cx, measurement, TRUE)
             IN  [cx |-> d.cx, results |-> (measurement :> d.ret) @@ results]
        ELSE [cx |-> b.cx, results |-> (measurement :> FALSE) @@ results]

\* the body of the loop for one measurement below the threshold
CleanOne(cx, results, measurement, action) ==
    IF action = "delete"
    THEN BackupThenDelete(cx, results, measurement)
    ELSE IF action = "backup_only"
    THEN LET b == BackupMeasurement(cx, measurement)
         IN  [cx |-> b.cx, results |-> (measurement :> b.ret) @@ results]
    ELSE [cx |-> cx, results |-> results]

RECURSIVE CleanLoop(_, _, _, _, _, _)
\* the for loop; an exception leaves it and the results gathered so far are returned
CleanLoop(cx, results, measurements, min_points, action, time_column) ==
    IF measurements = << >> THEN [cx |-> cx, results |-> results]
    ELSE
      LET measurement == Head(measurements)
      IN  IF Raises(cx)
          THEN [cx |-> Logged(cx, "count", measurement, FALSE, 0), results |-> results]
          ELSE
            LET c1     == Logged(cx, "count", measurement, TRUE, 0)
                points == CountPoints(c1.store[measurement], time_column)
            IN  IF points = << >>
                THEN CleanLoop(c1, results, Tail(measurements), min_points, action, time_column)
                ELSE IF SumRaises(points[1])
                THEN [cx |-> c1, results |-> results]
                ELSE IF SumValues(points[1]) < min_points
                THEN LET one == CleanOne(c1, results, measurement, action)
                     IN  CleanLoop(one.cx, one.results, Tail(measurements),
                                   min_points, action, time_column)
                ELSE CleanLoop(c1, results, Tail(measurements), min_points, action, time_column)

CleanLowDataMeasurements(cx, min_points, action, time_column) ==
    IF Raises(cx)
    THEN [cx |-> Logged(cx, "show_measurements", "", FALSE, 0), ret |-> << >>]
    ELSE LET c1 == Logged(cx, "show_measurements", "", TRUE, 0)
             r  == CleanLoop(c1, << >>, ShowMeasurements(c1.store), min_points, action,
                             time_column)
         IN  [cx |-> r.cx, ret |-> r.results]

-----------------------------------------------------------------------------
(* aggregate_old_data                                                      *)

UpperCase == "ABCDEFGHIJKLMNOPQRSTUVWXYZ"

LowerCase == "abcdefghijklmnopqrstuvwxyz"

LowerChar(c) ==
    IF \E i \in 1..Len(UpperCase) : SubSeq(UpperCase, i, i) = c
    THEN LET i == CHOOSE j \in 1..Len(UpperCase) : SubSeq(UpperCase, j, j) = c
         IN  SubSeq(LowerCase, i, i)
    ELSE c

RECURSIVE Lower(_)
\* str.lower()
Lower(s) == IF s = "" THEN "" ELSE LowerChar(SubSeq(s, 1, 1)) \o Lower(SubSeq(s, 2, Len(s)))

\* keyword in s
Contains(s, keyword) ==
    \E i \in 1..(Len(s) - Len(keyword) + 1) : SubSeq(s, i, i + Len(keyword) - 1) = keyword

\* a choice that looks for the MAX and MIN keywords before the SUM keywords
ReducerExtremesFirst(field) ==
    LET f == Lower(field)
    IN  IF \E k \in {"max", "peak", "highest"} : Contains(f, k) THEN "MAX"
        ELSE IF \E k \in {"min", "lowest"} : Contains(f, k) THEN "MIN"
        ELSE IF \E k \in {"count", "total", "sum"} : Contains(f, k) THEN "SUM"
        ELSE "MEAN"

\* the aggregation function chosen for a field, by keyword
Reducer(field) ==
    LET f == Lower(field)
    IN  IF \E k \in {"count", "total", "sum"} : Contains(f, k) THEN "SUM"
        ELSE IF \E k \in {"max", "peak", "highest"} : Contains(f, k) THEN "MAX"
        ELSE IF \E k \in {"min", "lowest"} : Contains(f, k) THEN "MIN"
        ELSE "MEAN"

\* the `intervals` dictionary, in hours
Interval(aggregation) ==
    CASE aggregation = "hourly"  -> 1
      [] aggregation = "daily"   -> 24
      [] aggregation = "weekly"  -> 168
      [] aggregation = "monthly" -> 720

RECURSIVE SumField(_, _)
SumField(rows, f) ==
    IF rows = {} THEN 0
    ELSE LET r == CHOOSE x \in rows : TRUE
         IN  r.fields[f] + SumField(rows \ {r}, f)

\* the value of reducer fn over the rows that carry field f (MEAN in whole numbers)
Reduce(fn, rows, f) ==
    CASE fn = "SUM"  -> SumField(rows, f)
      [] fn = "MAX"  -> CHOOSE v \in {r.fields[f] : r \in rows} :
                            \A r \in rows : r.fields[f] <= v
      [] fn = "MIN"  -> CHOOSE v \in {r.fields[f] : r \in rows} :
                            \A r \in rows : r.fields[f] >= v
      [] fn = "MEAN" -> SumField(rows, f) \div Cardinality(rows)

\* the points SELECT <reducers> INTO target FROM m WHERE time < cutoff
\* GROUP BY time(interval), * produces: one per (time bucket, tag set) that
\* holds a value of at least one of the fields
AggregatedPoints(rows, target, fields, cutoff, interval) ==
    LET old    == {r \in rows : r.time < cutoff}
        bucket(r) == r.time - (r.time % interval)
        groups == {<<bucket(r), r.tags>> : r \in old}
        members(g) == {r \in old : bucket(r) = g[1] /\ r.tags = g[2]}
        having(g, f) == {r \in members(g) : f \in DOMAIN r.fields}
        present(g) == {f \in fields : having(g, f) # {}}
    IN  {[measurement |-> target, time |-> g[1], tags |-> g[2],
          fields |-> [f \in present(g) |-> Reduce(Reducer(f), having(g, f), f)]] :
            g \in {h \in groups : present(h) # {}}}

RECURSIVE WriteSet(_, _)
\* the points of an INTO clause have distinct (time, tags): their order is immaterial
WriteSet(st, pts) ==
    IF pts = {} THEN st
    ELSE LET p == CHOOSE x \in pts : TRUE
         IN  WriteSet([st EXCEPT ![p.measurement] = Upsert(@, p)], pts \ {p})

\* from the aggregation query on: lines 340-397
AggregateTail(cx, measurement, cutoff_date, aggregation, fields) ==
    IF aggregation \notin IntervalKeys THEN [cx |-> cx, ret |-> FALSE]
    ELSE
      LET aggregated_name == AggregatedName(measurement, aggregation)
      IN  IF Raises(cx)
          THEN [cx |-> Logged(cx, "agg_into", measurement, FALSE, 0), ret |-> FALSE]
          ELSE
            LET out == AggregatedPoints(cx.store[measurement], aggregated_name, fields,
                                        cutoff_date, Interval(aggregation))
                c1  == [Logged(cx, "agg_into", measurement, TRUE, Cardinality(out))
                           EXCEPT !.store = WriteSet(@, out)]
            IN  IF Raises(c1)
                THEN [cx |-> Logged(c1, "count", aggregated_name, FALSE, 0), ret |-> FALSE]
                ELSE
                  LET c2 == Logged(c1, "count", aggregated_name, TRUE, 0)
                      aggregated_count ==
                          SumNumericAll(CountPoints(c2.store[aggregated_name], TRUE))
                  IN  IF aggregated_count > 0
                      THEN IF Raises(c2)
                           THEN [cx |-> Logged(c2, "delete_older", measurement, FALSE,
                                               cutoff_date),
                                 ret |-> FALSE]
                           ELSE [cx |-> [Logged(c2, "delete_older", measurement, TRUE,
                                                cutoff_date)
                                            EXCEPT !.store =
                                                DeleteOlder(@, measurement, cutoff_date)],
                                 ret |-> TRUE]
                      ELSE [cx |-> c2, ret |-> FALSE]

\* fields = {} stands for None and for the empty list
AggregateOldData(cx, measurement, cutoff_date, aggregation, fields) ==
    LET b == BackupMeasurement(cx, measurement)
    IN  IF ~b.ret THEN [cx |-> b.cx, ret |-> FALSE]
        ELSE IF fields # {}
        THEN AggregateTail(b.cx, measurement, cutoff_date, aggregation, fields)
        ELSE IF Raises(b.cx)
        THEN [cx |-> Logged(b.cx, "show_field_keys", measurement, FALSE, 0), ret |-> FALSE]
        ELSE LET c1    == Logged(b.cx, "show_field_keys", measurement, TRUE, 0)
                 found == FieldKeys(c1.store[measurement])
             IN  IF found = {} THEN [cx |-> c1, ret |-> FALSE]
                 ELSE AggregateTail(c1, measurement, cutoff_date, aggregation, found)

-----------------------------------------------------------------------------
(* filter_and_clean_by_age                                                 *)

\* the aggregation chosen from the number of old points
ChooseAggregation(old_count) ==
    IF old_count > 50000 THEN "monthly"
    ELSE IF old_count > 10000 THEN "weekly"
    ELSE IF old_count > 1000 THEN "daily"
    ELSE "hourly"

\* a measurement without old data recorded as failed
NoOldDataFailed(cx) == [cx |-> cx, ret |-> FALSE]

\* old_count == 0: recorded as success, `continue`
NoOldData(cx) == [cx |-> cx, ret |-> TRUE]

\* an unrecognized action recorded as success
InvalidActionAccepted(cx) == [cx |-> cx, ret |-> TRUE]

\* the else branch: an unrecognized action
InvalidAction(cx) == [cx |-> cx, ret |-> FALSE]

\* the DELETE of the rows older than the cutoff: lines 444-449
DeleteOld(cx, measurement, cutoff_date) ==
    IF Raises(cx)
    THEN [cx |-> Logged(cx, "delete_older", measurement, FALSE, cutoff_date), ret |-> FALSE]
    ELSE [cx |-> [Logged(cx, "delete_older", measurement, TRUE, cutoff_date)
                     EXCEPT !.store = DeleteOlder(@, measurement, cutoff_date)],
          ret |-> TRUE]

\* a delete branch that deletes the old rows whatever the backup returned
AgeDeleteUngated(cx, measurement, cutoff_date) ==
    DeleteOld(BackupMeasurement(cx, measurement).cx, measurement, cutoff_date)

\* the delete branch: backup first, delete only after a successful backup
AgeDelete(cx, measurement, cutoff_date) ==
    LET b == BackupMeasurement(cx, measurement)
    IN  IF ~b.ret THEN [cx |-> b.cx, ret |-> FALSE]
        ELSE DeleteOld(b.cx, measurement, cutoff_date)

\* the try block of the loop for one measurement
AgeOne(cx, measurement, cutoff_date, action) ==
    IF Raises(cx)
    THEN [cx |-> Logged(cx, "count_older", measurement, FALSE, cutoff_date), ret |-> FALSE]
    ELSE
      LET c1 == Logged(cx, "count_older", measurement, TRUE, cutoff_date)
          old_count == SumNumericAll(CountPoints(
                           {r \in c1.store[measurement] : r.time < cutoff_date}, TRUE))
      IN  IF old_count = 0 THEN NoOldData(c1)
          ELSE IF action = "aggregate"
          THEN AggregateOldData(c1, measurement, cutoff_date,
                                ChooseAggregation(old_count), {})
          ELSE IF action = "delete"
          THEN AgeDelete(c1, measurement, cutoff_date)
          ELSE InvalidAction(c1)

RECURSIVE AgeLoopAborting(_, _, _, _, _)
\* a loop whose try block encloses it: the first failed member ends the batch
AgeLoopAborting(cx, results, measurements, cutoff_date, action) ==
    IF measurements = << >> THEN [cx |-> cx, ret |-> results]
    ELSE LET one == AgeOne(cx, Head(measurements), cutoff_date, action)
             now == (Head(measurements) :> one.ret) @@ results
         IN  IF one.ret
             THEN AgeLoopAborting(one.cx, now, Tail(measurements), cutoff_date, action)
             ELSE [cx |-> one.cx, ret |-> now]

RECURSIVE AgeLoop(_, _, _, _, _)
\* the for loop: each member has its own try block
AgeLoop(cx, results, measurements, cutoff_date, action) ==
    IF measurements = << >> THEN [cx |-> cx, ret |-> results]
    ELSE LET one == AgeOne(cx, Head(measurements), cutoff_date, action)
         IN  AgeLoop(one.cx, (Head(measurements) :> one.ret) @@ results,
                     Tail(measurements), cutoff_date, action)

FilterAndCleanByAge(cx, measurements, cutoff_date, action) ==
    AgeLoop(cx, << >>, measurements, cutoff_date, action)

-----------------------------------------------------------------------------
(* merge_measurements                                                      *)

\* a batch handed to write_points, with the measurement it was fetched from
Written(cx, source, pts) ==
    [cx EXCEPT !.written = Append(@, [source |-> source, points |-> pts])]

\* a source without rows taken as a failure of the merge
NoDataFails(cx) == [cx |-> cx, ok |-> FALSE]

\* a source without rows: `continue`
NoData(cx) == [cx |-> cx, ok |-> TRUE]

\* a merged point that does not carry its source
MergedPointUntagged(point, source, target_measurement, tag_mapping) ==
    [measurement |-> target_measurement,
     time   |-> point["time"],
     fields |-> [k \in {c \in DOMAIN point : c # "time" /\ ~StartsWithTag(c)} |-> point[k]],
     tags   |-> << >>]

\* the point written to the target for one fetched point; tag_mapping is a
\* function from column names to tag names, the empty one standing for None
MergedPoint(point, source, target_measurement, tag_mapping) ==
    LET mapped == {o \in DOMAIN tag_mapping : o \in DOMAIN point}
        keys   == {tag_mapping[o] : o \in mapped} \cup {"source_measurement"}
    IN  [measurement |-> target_measurement,
         time   |-> point["time"],
         fields |-> [k \in {c \in DOMAIN point : c # "time" /\ ~StartsWithTag(c)} |->
                        point[k]],
         tags   |-> [t \in keys |->
                        IF t = "source_measurement" THEN source
                        ELSE point[CHOOSE o \in mapped : tag_mapping[o] = t]]]

\* a write of the batch that also drops the source it came from
MergeWriteMoving(cx, source, target_measurement, new_points) ==
    IF Raises(cx)
    THEN [cx |-> Logged(cx, "write", target_measurement, FALSE, Len(new_points)),
          ok |-> FALSE]
    ELSE [cx |-> Written([Logged(cx, "write", target_measurement, TRUE, Len(new_points))
                             EXCEPT !.store = DropRows(WriteRows(@, new_points), source)],
                         source, new_points),
          ok |-> TRUE]

\* write_points(new_points): lines 118-121
MergeWrite(cx, source, target_measurement, new_points) ==
    IF Raises(cx)
    THEN [cx |-> Logged(cx, "write", target_measurement, FALSE, Len(new_points)),
          ok |-> FALSE]
    ELSE [cx |-> Written([Logged(cx, "write", target_measurement, TRUE, Len(new_points))
                             EXCEPT !.store = WriteRows(@, new_points)],
                         source, new_points),
          ok |-> TRUE]

\* the body of the loop for one source; ok = FALSE when a call raised
MergeOne(cx, source, target_measurement, tag_mapping) ==
    IF Raises(cx)
    THEN [cx |-> Logged(cx, "select_all", source, FALSE, 0), ok |-> FALSE]
    ELSE LET c1     == Logged(cx, "select_all", source, TRUE, 0)
             points == SelectAll(c1.store, source)
             new_points == [i \in 1..Len(points) |->
                               MergedPoint(points[i], source, target_measurement,
                                           tag_mapping)]
         IN  IF points = << >> THEN NoData(c1)
             ELSE MergeWrite(c1, source, target_measurement, new_points)

RECURSIVE MergeLoop(_, _, _, _)
\* the for loop inside the try block: an exception ends it with False
MergeLoop(cx, sources, target_measurement, tag_mapping) ==
    IF sources = << >> THEN [cx |-> cx, ret |-> TRUE]
    ELSE LET one == MergeOne(cx, Head(sources), target_measurement, tag_mapping)
         IN  IF one.ok
             THEN MergeLoop(one.cx, Tail(sources), target_measurement, tag_mapping)
             ELSE [cx |-> one.cx, ret |-> FALSE]

\* a merge that takes its writes back when it fails
MergeAllOrNothing(cx, source_measurements, target_measurement, tag_mapping) ==
    LET r == MergeLoop(cx, source_measurements, target_measurement, tag_mapping)
    IN  IF source_measurements = << >> THEN [cx |-> cx, ret |-> FALSE]
        ELSE IF r.ret THEN r
        ELSE [cx |-> [r.cx EXCEPT !.store = cx.store], ret |-> FALSE]

MergeMeasurements(cx, source_measurements, target_measurement, tag_mapping) ==
    IF source_measurements = << >> THEN [cx |-> cx, ret |-> FALSE]
    ELSE MergeLoop(cx, source_measurements, target_measurement, tag_mapping)

-----------------------------------------------------------------------------
(* split_measurement_by_tag                                                *)

\* the tag values of the model, in the order SHOW TAG VALUES lists them
TagValueOrder == <<"h", "k">>

TagValues == {TagValueOrder[i] : i \in 1..Len(TagValueOrder)}

\* the rows of a measurement that carry tag_key = tag_value
RowsWhere(rows, tag_key, tag_value) ==
    {r \in rows : tag_key \in DOMAIN r.tags /\ r.tags[tag_key] = tag_value}

\* SHOW TAG VALUES FROM "m" WITH KEY = "tag_key": the values of the series
\* index; `stale` are values of series the index still lists although a
\* DELETE has removed their points
ShowTagValues(st, m, tag_key, stale) ==
    SelectSeq(TagValueOrder,
              LAMBDA v : RowsWhere(st[m], tag_key, v) # {} \/ v \in stale)

\* SELECT * FROM "m" WHERE "tag_key" = 'tag_value': the list of points
SelectWhere(st, m, tag_key, tag_value) ==
    LET ordered == ByTime(RowsWhere(st[m], tag_key, tag_value))
    IN  [i \in 1..Len(ordered) |-> Point(ordered[i], st[m])]

\* f"{measurement}_{tag_value}"
SplitName(measurement, tag_value) == measurement \o "_" \o tag_value

\* a split point that keeps the column of the split tag
SplitPointKeepingTag(point, measurement, new_measurement_name, tag_key) ==
    [measurement |-> new_measurement_name,
     time   |-> point["time"],
     fields |-> [k \in {c \in DOMAIN point : c # "time" /\ ~StartsWithTag(c)} |-> point[k]],
     tags   |-> [k \in {c \in DOMAIN point : c # "time" /\ StartsWithTag(c)}
                        \cup {"source_measurement"} |->
                    IF k = "source_measurement" THEN measurement ELSE point[k]]]

\* the point written to the new measurement for one fetched point
SplitPoint(point, measurement, new_measurement_name, tag_key) ==
    LET kept == {c \in DOMAIN point : c # "time" /\ c # tag_key}
    IN  [measurement |-> new_measurement_name,
         time   |-> point["time"],
         fields |-> [k \in {c \in kept : ~StartsWithTag(c)} |-> point[k]],
         tags   |-> [k \in {c \in kept : StartsWithTag(c)} \cup {"source_measurement"} |->
                        IF k = "source_measurement" THEN measurement ELSE point[k]]]

\* a tag value without rows that ends the split
NoRowsAborts(cx, results, new_measurement_name) ==
    [cx |-> cx, results |-> (new_measurement_name :> FALSE) @@ results, ok |-> FALSE]

\* the else branch: no points for the tag value
NoRows(cx, results, new_measurement_name) ==
    [cx |-> cx, results |-> (new_measurement_name :> FALSE) @@ results, ok |-> TRUE]

\* the body of the loop for one tag value; ok = FALSE when a call raised
SplitOne(cx, results, measurement, tag_key, tag_value) ==
    LET new_measurement_name == SplitName(measurement, tag_value)
    IN  IF Raises(cx)
        THEN [cx |-> Logged(cx, "select_where", new_measurement_name, FALSE, 0),
              results |-> results, ok |-> FALSE]
        ELSE
          LET c1     == Logged(cx, "select_where", new_measurement_name, TRUE, 0)
              points == SelectWhere(c1.store, measurement, tag_key, tag_value)
              new_points == [i \in 1..Len(points) |->
                                SplitPoint(points[i], measurement, new_measurement_name,
                                           tag_key)]
          IN  IF points = << >> THEN NoRows(c1, results, new_measurement_name)
              ELSE IF Raises(c1)
              THEN [cx |-> Logged(c1, "write", new_measurement_name, FALSE, Len(new_points)),
                    results |-> results, ok |-> FALSE]
              ELSE [cx |-> Written([Logged(c1, "write", new_measurement_name, TRUE,
                                           Len(new_points))
                                       EXCEPT !.store = WriteRows(@, new_points)],
                                   measurement, new_points),
                    results |-> (new_measurement_name :> TRUE) @@ results,
                    ok |-> TRUE]

RECURSIVE SplitLoop(_, _, _, _, _)
\* the for loop inside the try block: an exception ends it
SplitLoop(cx, results, measurement, tag_key, tag_values) ==
    IF tag_values = << >> THEN [cx |-> cx, ret |-> results]
    ELSE LET one == SplitOne(cx, results, measurement, tag_key, Head(tag_values))
         IN  IF one.ok
             THEN SplitLoop(one.cx, one.results, measurement, tag_key, Tail(tag_values))
             ELSE [cx |-> one.cx, ret |-> one.results]

SplitMeasurementByTag(cx, measurement, tag_key, stale) ==
    IF Raises(cx)
    THEN [cx |-> Logged(cx, "show_tag_values", measurement, FALSE, 0), ret |-> << >>]
    ELSE LET c1 == Logged(cx, "show_tag_values", measurement, TRUE, 0)
             tag_values == ShowTagValues(c1.store, measurement, tag_key, stale)
         IN  IF tag_values = << >> THEN [cx |-> c1, ret |-> << >>]
             ELSE SplitLoop(c1, << >>, measurement, tag_key, tag_values)

-----------------------------------------------------------------------------
(* Actions: one per operation                                              *)

Finish(cx, record) ==
    /\ store' = cx.store
    /\ backups' = cx.backups
    /\ calls' = cx.calls
    /\ written' = cx.written
    /\ last' = record
    /\ pre' = store
    /\ par' = par

Backup ==
    \E m \in Names, F \in FaultSets(2) :
        LET r == BackupMeasurement(Context(store, backups, F), m)
        IN  Finish(r.cx, [op |-> "backup", measurement |-> m, ret |-> r.ret])

Delete ==
    \E m \in Names, confirm \in BOOLEAN, F \in FaultSets(1) :
        LET r == DeleteMeasurement(Context(store, backups, F), m, confirm)
        IN  Finish(r.cx, [op |-> "delete", measurement |-> m, confirm |-> confirm,
                          ret |-> r.ret])

Rename ==
    \E old \in Names, new \in Names, F \in FaultSets(5) :
        LET r == RenameMeasurement(Context(store, backups, F), old, new)
        IN  Finish(r.cx, [op |-> "rename", old_name |-> old, new_name |-> new,
                          ret |-> r.ret])

RECURSIVE DeleteSelectedLoop(_, _, _)
\* the loop of InfluxCleanerGUI.delete_selected: a failed backup ends it
DeleteSelectedLoop(cx, results, selected) ==
    IF selected = << >> THEN [cx |-> cx, ret |-> results]
    ELSE LET measurement == Head(selected)
             b == BackupMeasurement(cx, measurement)
         IN  IF b.ret
             THEN LET d == DeleteMeasurement(b.cx, measurement, TRUE)
                  IN  DeleteSelectedLoop(d.cx, (measurement :> d.ret) @@ results,
                                         Tail(selected))
             ELSE [cx |-> b.cx, ret |-> (measurement :> FALSE) @@ results]

\* selections offered to the delete button
SelectionInputs == {<<"a">>, <<"a", "b">>}

\* InfluxCleanerGUI.delete_selected with a non-empty selection; `yes` is the
\* answer to the confirmation dialog
DeleteSelected ==
    \E selected \in SelectionInputs, yes \in BOOLEAN, F \in FaultSets(6) :
        LET r == IF yes THEN DeleteSelectedLoop(Context(store, backups, F), << >>, selected)
                 ELSE [cx |-> Context(store, backups, F), ret |-> << >>]
        IN  Finish(r.cx, [op |-> "delete_selected", selected |-> selected, yes |-> yes,
                          ret |-> r.ret])

\* thresholds and actions offered to clean_low_data_measurements
MinPointsInputs == {2, 10}

CleanActions == {"delete", "backup_only"}

CleanLowData ==
    \E min_points \in MinPointsInputs, action \in CleanActions, time_column \in BOOLEAN,
       F \in FaultSets(1 + 4 * Cardinality(Names)) :
        LET r == CleanLowDataMeasurements(Context(store, backups, F), min_points, action,
                                          time_column)
        IN  Finish(r.cx, [op |-> "clean_low_data", min_points |-> min_points,
                          action |-> action, time_column |-> time_column, ret |-> r.ret])

\* field lists offered to aggregate_old_data: None, a present and an absent field
FieldInputs == {{}, {"value"}, {"humidity"}}

AggregateOf(ms) ==
    \E m \in ms, cutoff \in Cutoffs, g \in AggregationInputs, fields \in FieldInputs,
       F \in FaultSets(6) :
        LET r == AggregateOldData(Context(store, backups, F), m, cutoff, g, fields)
        IN  Finish(r.cx, [op |-> "aggregate_old_data", measurement |-> m,
                          cutoff |-> cutoff, aggregation |-> g, fields |-> fields,
                          ret |-> r.ret])

Aggregate == AggregateOf(Names)

\* measurement lists and actions offered to filter_and_clean_by_age
ListInputs == {<<"a">>, <<"a", "b">>}

AgeActions == {"aggregate", "delete", "purge"}

FilterByAge ==
    \E ms \in ListInputs, cutoff \in Cutoffs, action \in AgeActions, F \in FaultSets(14) :
        LET r == FilterAndCleanByAge(Context(store, backups, F), ms, cutoff, action)
        IN  Finish(r.cx, [op |-> "filter_and_clean_by_age", measurements |-> ms,
                          cutoff |-> cutoff, action |-> action, ret |-> r.ret])

-----------------------------------------------------------------------------
(* Specifications                                                          *)

\* a store holding `ca` under "a", `cb` under "b" and `ct` under "a_agg_hourly"
StoreOf(ca, cb, ct) ==
    [m \in Measurements |->
        IF m = "a" THEN ca ELSE IF m = "b" THEN cb
        ELSE IF m = "a_agg_hourly" THEN ct ELSE {}]

Fresh ==
    /\ backups = [m \in Measurements |-> NoBackup]
    /\ calls = << >>
    /\ written = << >>
    /\ last = [op |-> "none"]
    /\ pre = store
    /\ par = ParIdle

Init ==
    /\ \E ca \in SUBSET {OldMarked, RecentMarked, OldPlain}, cb \in {{}, {OldMarked}} :
           store = StoreOf(ca, cb, {})
    /\ Fresh

InitAge ==
    /\ \E ca \in SUBSET {OldMarked, RecentMarked}, cb \in {{}, {OldMarked}} :
           store = StoreOf(ca, cb, {})
    /\ Fresh

InitOnce ==
    /\ \E ca \in SUBSET {OldMarked, RecentMarked, OldPlain}, cb \in {{}, {OldMarked}},
          ct \in {{}, {OldAggregated}} :
           store = StoreOf(ca, cb, ct)
    /\ Fresh

\* the backup and delete primitives, called on their own
NextDelete == Backup \/ Delete \/ DeleteSelected

SpecDelete == Init /\ [][NextDelete]_vars

NextRename == Rename

SpecRename == Init /\ [][NextRename]_vars

NextClean == CleanLowData

SpecClean == Init /\ [][NextClean]_vars

\* successive aggregations of one measurement
NextAgg == AggregateOf({"a"})

SpecAgg == InitAge /\ [][NextAgg]_vars

\* one invocation of any operation on any initial store
Next ==
    /\ last.op = "none"
    /\ \/ Backup
       \/ Delete
       \/ DeleteSelected
       \/ Rename
       \/ CleanLowData
       \/ Aggregate
       \/ FilterByAge

Spec == InitOnce /\ [][Next]_vars

-----------------------------------------------------------------------------
(* Merge: actions and specification                                        *)

\* rows whose tag values are strings, as the store returns them
KitchenOld == [time |-> 0,  tags |-> [tag_loc |-> "k"], fields |-> [value |-> 1]]
HallOld    == [time |-> 0,  tags |-> [tag_loc |-> "h"], fields |-> [value |-> 2]]
KitchenNew == [time |-> 30, tags |-> [tag_loc |-> "k"], fields |-> [value |-> 3]]
HostOld    == [time |-> 1,  tags |-> [host |-> "h"],    fields |-> [value |-> 4]]

\* source lists, targets and tag mappings offered to merge_measurements
SourceInputs == {<< >>, <<"a">>, <<"a", "b">>}

TargetInputs == {"m", "b"}

TagMappings == {<< >>, [tag_loc |-> "location"]}

Merge ==
    \E sources \in SourceInputs, target \in TargetInputs, tag_mapping \in TagMappings,
       F \in FaultSets(4) :
        LET r == MergeMeasurements(Context(store, backups, F), sources, target, tag_mapping)
        IN  Finish(r.cx, [op |-> "merge", sources |-> sources, target |-> target,
                          tag_mapping |-> tag_mapping, ret |-> r.ret])

\* InfluxCleanerGUI.merge_selected: `target` is the name typed into the dialog
\* ("" when it is cancelled), `yes` the answer to the confirmation
MergeSelected ==
    \E selected \in SourceInputs, target \in TargetInputs \cup {""}, yes \in BOOLEAN,
       F \in FaultSets(4) :
        LET cx == Context(store, backups, F)
            r  == IF Len(selected) < 2 \/ target = "" \/ ~yes
                  THEN [cx |-> cx, ret |-> "none"]
                  ELSE MergeMeasurements(cx, selected, target, << >>)
        IN  Finish(r.cx, [op |-> "merge_selected", sources |-> selected,
                          target |-> target, yes |-> yes, ret |-> r.ret])

\* a row an earlier merge of "b" left in the target
MergedOld ==
    [time |-> 0, tags |-> [source_measurement |-> "b"], fields |-> [value |-> 9]]

InitMerge ==
    /\ \E ca \in SUBSET {KitchenOld, HallOld, KitchenNew}, cb \in SUBSET {KitchenOld, HostOld},
          cm \in {{}, {MergedOld}} :
           store = [StoreOf(ca, cb, {}) EXCEPT !["m"] = cm]
    /\ Fresh

\* one merge on any initial store
NextMerge == last.op = "none" /\ (Merge \/ MergeSelected)

SpecMerge == InitMerge /\ [][NextMerge]_vars

-----------------------------------------------------------------------------
(* Split: action and specification                                         *)

\* a row that carries both tags
BothOld == [time |-> 0, tags |-> [tag_loc |-> "k", host |-> "h"], fields |-> [value |-> 5]]

\* a row an earlier split left in "a_k"
SplitOld ==
    [time |-> 0, tags |-> [source_measurement |-> "a"], fields |-> [value |-> 9]]

\* tag keys offered to split_measurement_by_tag
TagKeyInputs == {"tag_loc", "host"}

Split ==
    \E tag_key \in TagKeyInputs, stale \in SUBSET TagValues,
       F \in FaultSets(1 + 2 * Len(TagValueOrder)) :
        LET r == SplitMeasurementByTag(Context(store, backups, F), "a", tag_key, stale)
        IN  Finish(r.cx, [op |-> "split", measurement |-> "a", tag_key |-> tag_key,
                          stale |-> stale, ret |-> r.ret])

InitSplit ==
    /\ \E ca \in SUBSET {KitchenOld, HallOld, KitchenNew, HostOld, BothOld},
          ck \in {{}, {SplitOld}} :
           store = [StoreOf(ca, {}, {}) EXCEPT !["a_k"] = ck]
    /\ Fresh

\* one split on any initial store
NextSplit == last.op = "none" /\ Split

SpecSplit == InitSplit /\ [][NextSplit]_vars

-----------------------------------------------------------------------------
(* Split followed by a merge of the split outputs                          *)

\* a row that carries two marked tags
RoomOld ==
    [time |-> 0, tags |-> [tag_loc |-> "k", tag_room |-> "x"], fields |-> [value |-> 6]]

\* split_measurement_by_tag("a", tag_key), every call returning
RoundSplit ==
    /\ last.op = "none"
    /\ \E tag_key \in TagKeyInputs :
         LET r == SplitMeasurementByTag(Context(store, backups, {}), "a", tag_key, {})
         IN  Finish(r.cx, [op |-> "split", measurement |-> "a", tag_key |-> tag_key,
                           stale |-> {}, ret |-> r.ret])

\* merge_measurements(the measurements the split reported, "m"), every call
\* returning
RoundMerge ==
    /\ last.op = "split"
    /\ \E tag_mapping \in TagMappings :
         LET outputs == SelectSeq(NameOrder, LAMBDA n : n \in DOMAIN last.ret)
             r == MergeMeasurements(Context(store, backups, {}), outputs, "m", tag_mapping)
         IN  Finish(r.cx, [op |-> "merge_back", sources |-> outputs, target |-> "m",
                           tag_mapping |-> tag_mapping, split_key |-> last.tag_key,
                           ret |-> r.ret])

InitRound ==
    /\ \E ca \in SUBSET {KitchenOld, HallOld, KitchenNew, HostOld, BothOld, RoomOld} :
           store = StoreOf(ca, {}, {})
    /\ Fresh

NextRound == RoundSplit \/ RoundMerge

SpecRound == InitRound /\ [][NextRound]_vars

-----------------------------------------------------------------------------
(* Merging in two steps and merging directly                               *)

\* one merge of the comparison, every call returning
AssocMerge(sources, target, tag_mapping) ==
    LET r == MergeMeasurements(Context(store, backups, {}), sources, target, tag_mapping)
    IN  Finish(r.cx, [op |-> "merge", sources |-> sources, target |-> target,
                      tag_mapping |-> tag_mapping, ret |-> r.ret])

\* merge_measurements(["a", "b"], "m")
AssocFirst ==
    /\ last.op = "none"
    /\ \E tag_mapping \in TagMappings : AssocMerge(<<"a", "b">>, "m", tag_mapping)

\* merge_measurements(["m", "c"], "m2"), with the same tag mapping
AssocSecond ==
    /\ last.op = "merge" /\ last.target = "m"
    /\ AssocMerge(<<"m", "c">>, "m2", last.tag_mapping)

\* merge_measurements(["a", "b", "c"], "m3"), with the same tag mapping
AssocDirect ==
    /\ last.op = "merge" /\ last.target = "m2"
    /\ AssocMerge(<<"a", "b", "c">>, "m3", last.tag_mapping)

InitAssoc ==
    /\ \E ca \in SUBSET {KitchenOld, KitchenNew}, cb \in SUBSET {HallOld, HostOld},
          cc \in SUBSET {KitchenOld, HostOld} :
           store = [StoreOf(ca, cb, {}) EXCEPT !["c"] = cc]
    /\ Fresh

NextAssoc == AssocFirst \/ AssocSecond \/ AssocDirect

SpecAssoc == InitAssoc /\ [][NextAssoc]_vars

-----------------------------------------------------------------------------
(* consolidate_by_pattern                                                  *)

\* a match that compares the name and the pattern as they are written
MatchesExactCase(pattern, m) == Contains(m, pattern)

\* pattern.lower() in m.lower()
Matches(pattern, m) == Contains(Lower(m), Lower(pattern))

ConsolidateByPattern(cx, pattern, target_measurement) ==
    IF Raises(cx)
    THEN [cx |-> Logged(cx, "show_measurements", "", FALSE, 0), ret |-> FALSE]
    ELSE LET c1 == Logged(cx, "show_measurements", "", TRUE, 0)
             all_measurements == ShowMeasurements(c1.store)
             matching == SelectSeq(all_measurements, LAMBDA m : Matches(pattern, m))
         IN  IF matching = << >> THEN [cx |-> c1, ret |-> FALSE]
             ELSE MergeMeasurements(c1, matching, target_measurement, << >>)

PatternInputs == {"A", "b", "agg", "zz", ""}

Consolidate ==
    /\ last.op = "none"
    /\ \E pattern \in PatternInputs, target \in {"m", "a"}, F \in FaultSets(9) :
        LET r == ConsolidateByPattern(Context(store, backups, F), pattern, target)
        IN  Finish(r.cx, [op |-> "consolidate", pattern |-> pattern, target |-> target,
                          ret |-> r.ret])

InitConsolidate ==
    /\ \E ca \in SUBSET {KitchenOld, KitchenNew}, cb \in SUBSET {HostOld},
          cr \in SUBSET {HallOld}, ct \in SUBSET {KitchenOld} :
           store = [StoreOf(ca, cb, ct) EXCEPT !["B_raw"] = cr]
    /\ Fresh

NextConsolidate == Consolidate

SpecConsolidate == InitConsolidate /\ [][NextConsolidate]_vars

-----------------------------------------------------------------------------
(* InfluxDBAnalyzer: the queries of the inventory                          *)

\* the field keys, tag keys and tag values of the model, in the lexical order
\* in which the SHOW queries list them
FieldKeyOrder == <<"humidity", "value">>

TagKeyOrder == <<"host", "rack", "tag_loc", "tag_room", "unit", "zone">>

TagValueListing == <<"h", "k", "x">>

\* SHOW FIELD KEYS FROM "m"
ShowFieldKeys(rows) == SelectSeq(FieldKeyOrder, LAMBDA f : f \in FieldKeys(rows))

\* SHOW TAG KEYS FROM "m"
ShowTagKeys(rows) == SelectSeq(TagKeyOrder, LAMBDA k : k \in TagKeys(rows))

\* SHOW TAG VALUES FROM "m" WITH KEY = "tag_key"
ShowTagValuesOf(rows, tag_key) ==
    SelectSeq(TagValueListing, LAMBDA v : RowsWhere(rows, tag_key, v) # {})

\* LIMIT n
Limit(points, n) == SubSeq(points, 1, IF Len(points) < n THEN Len(points) ELSE n)

DecimalDigits == "0123456789"

Digit(d) == SubSeq(DecimalDigits, d + 1, d + 1)

DigitValue(c) == CHOOSE d \in 0..9 : Digit(d) = c

TwoDigits(n) == Digit(n \div 10) \o Digit(n % 10)

\* the RFC 3339 string the store returns for an instant (hours since the
\* epoch, within January 1970)
IsoTime(t) == "1970-01-" \o TwoDigits(t \div 24 + 1) \o "T" \o TwoDigits(t % 24) \o ":00:00Z"

\* datetime.fromisoformat(s.replace('Z', '+00:00')), as hours since the epoch
FromIso(s) ==
    LET day  == 10 * DigitValue(SubSeq(s, 9, 9)) + DigitValue(SubSeq(s, 10, 10))
        hour == 10 * DigitValue(SubSeq(s, 12, 12)) + DigitValue(SubSeq(s, 13, 13))
    IN  24 * (day - 1) + hour

\* strftime('%Y-%m-%d %H:%M:%S')
StrfTime(t) == "1970-01-" \o TwoDigits(t \div 24 + 1) \o " " \o TwoDigits(t % 24) \o ":00:00"

\* isoformat() of an aware datetime
IsoFormat(t) ==
    "1970-01-" \o TwoDigits(t \div 24 + 1) \o "T" \o TwoDigits(t % 24) \o ":00:00+00:00"

RECURSIVE TopDesc(_, _)
\* the first n rows in descending time
TopDesc(rows, n) ==
    IF n = 0 \/ rows = {} THEN << >>
    ELSE LET first == CHOOSE r \in rows : \A q \in rows : r.time >= q.time
         IN  <<first>> \o TopDesc(rows \ {first}, n - 1)

\* SELECT * FROM "m" ORDER BY time DESC LIMIT n: points with their time as text
SelectRecent(st, m, n) ==
    LET ordered == TopDesc(st[m], n)
    IN  [i \in 1..Len(ordered) |->
            LET p == Point(ordered[i], st[m])
            IN  [c \in DOMAIN p |-> IF c = "time" THEN IsoTime(p[c]) ELSE p[c]]]

\* the parsed times of the sample points
Times(sample_points) == {FromIso(sample_points[i]["time"]) : i \in 1..Len(sample_points)}

MaxOf(times) == CHOOSE t \in times : \A u \in times : t >= u

MinOf(times) == CHOOSE t \in times : \A u \in times : t <= u

\* total_points taken from the first count column alone
TotalPointsFirstColumn(points) ==
    IF points = << >> THEN 0
    ELSE LET numeric == {c \in DOMAIN points[1] : points[1][c].num}
         IN  IF numeric = {} THEN 0 ELSE points[1][CHOOSE c \in numeric : TRUE].v

\* if points: sum(v for v in points[0].values() if isinstance(v, (int, float)))
TotalPoints(points) == IF points = << >> THEN 0 ELSE SumNumeric(points[1])

\* dict.update
Update(d, u) == u @@ d

RECURSIVE TagValueLoop(_, _, _, _, _)
\* for tag_key in tag_keys: one SHOW TAG VALUES query per key, with LIMIT 10 in
\* the fast variant; a raising query ends the loop with the entries made so far
TagValueLoop(cx, measurement, tag_keys, tags, limited) ==
    IF tag_keys = << >> THEN [cx |-> cx, tags |-> tags, raised |-> FALSE]
    ELSE IF Raises(cx)
    THEN [cx |-> Logged(cx, "show_tag_values", measurement, FALSE, 0),
          tags |-> tags, raised |-> TRUE]
    ELSE LET values == ShowTagValuesOf(cx.store[measurement], Head(tag_keys))
         IN  TagValueLoop(Logged(cx, "show_tag_values", measurement, TRUE, 0),
                          measurement, Tail(tag_keys),
                          Update(tags, Head(tag_keys) :>
                                         (IF limited THEN Limit(values, 10) ELSE values)),
                          limited)

-----------------------------------------------------------------------------
(* analyze_measurement, analyze_measurement_fast                           *)

\* _create_empty_analysis; None is the empty tuple
CreateEmptyAnalysis(measurement) ==
    [name |-> measurement, total_points |-> 0, time_range |-> << >>, fields |-> << >>,
     tags |-> << >>, sample_data |-> << >>, last_entry |-> "Error"]

\* the thorough variant: one try block around all queries, whose except clause
\* logs and lets the function return the dictionary as filled so far
AnalyzeMeasurement(cx, measurement) ==
    LET rows == cx.store[measurement]
        analysis == [name |-> measurement, total_points |-> 0, time_range |-> << >>,
                     fields |-> << >>, tags |-> << >>, sample_data |-> << >>]
    IN  IF Raises(cx)
        THEN [cx |-> Logged(cx, "count", measurement, FALSE, 0), ret |-> analysis]
        ELSE
        LET c1 == Logged(cx, "count", measurement, TRUE, 0)
            a1 == [analysis EXCEPT !.total_points = TotalPoints(CountPoints(rows, TRUE))]
        IN  IF Raises(c1)
            THEN [cx |-> Logged(c1, "show_field_keys", measurement, FALSE, 0), ret |-> a1]
            ELSE
            LET c2 == Logged(c1, "show_field_keys", measurement, TRUE, 0)
                a2 == [a1 EXCEPT !.fields = ShowFieldKeys(rows)]
            IN  IF Raises(c2)
                THEN [cx |-> Logged(c2, "show_tag_keys", measurement, FALSE, 0), ret |-> a2]
                ELSE
                LET c3   == Logged(c2, "show_tag_keys", measurement, TRUE, 0)
                    loop == TagValueLoop(c3, measurement, ShowTagKeys(rows), << >>, FALSE)
                    a3   == [a2 EXCEPT !.tags = loop.tags]
                IN  IF loop.raised THEN [cx |-> loop.cx, ret |-> a3]
                    ELSE IF Raises(loop.cx)
                    THEN [cx |-> Logged(loop.cx, "select_recent", measurement, FALSE, 0),
                          ret |-> a3]
                    ELSE
                    LET c5 == Logged(loop.cx, "select_recent", measurement, TRUE, 0)
                        sample_points == SelectRecent(c5.store, measurement, 10)
                        times == Times(sample_points)
                    IN  [cx |-> c5,
                         ret |-> IF sample_points # << >>
                                 THEN Update(a3,
                                        [sample_data |-> Limit(sample_points, 5),
                                         time_range  |-> <<IsoFormat(MinOf(times)),
                                                           IsoFormat(MaxOf(times))>>,
                                         last_entry  |-> StrfTime(MaxOf(times))])
                                 ELSE Update(a3, [last_entry |-> "No data"])]

\* _get_basic_measurement_info: its except clause logs and returns `info` as
\* filled so far
GetBasicMeasurementInfo(cx, measurement) ==
    LET rows == cx.store[measurement]
        info == [total_points |-> 0, fields |-> << >>, tags |-> << >>]
    IN  IF Raises(cx)
        THEN [cx |-> Logged(cx, "count", measurement, FALSE, 0), ret |-> info]
        ELSE
        LET c1 == Logged(cx, "count", measurement, TRUE, 0)
            i1 == [info EXCEPT !.total_points = TotalPoints(Limit(CountPoints(rows, TRUE), 1))]
        IN  IF Raises(c1)
            THEN [cx |-> Logged(c1, "show_field_keys", measurement, FALSE, 0), ret |-> i1]
            ELSE
            LET c2 == Logged(c1, "show_field_keys", measurement, TRUE, 0)
                i2 == [i1 EXCEPT !.fields = ShowFieldKeys(rows)]
            IN  IF Raises(c2)
                THEN [cx |-> Logged(c2, "show_tag_keys", measurement, FALSE, 0), ret |-> i2]
                ELSE
                LET c3 == Logged(c2, "show_tag_keys", measurement, TRUE, 0)
                    tag_keys == ShowTagKeys(rows)
                    loop == TagValueLoop(c3, measurement, tag_keys, << >>, TRUE)
                IN  IF Len(tag_keys) <= 5
                    THEN [cx |-> loop.cx, ret |-> [i2 EXCEPT !.tags = loop.tags]]
                    ELSE [cx |-> c3,
                          ret |-> [i2 EXCEPT !.tags = [k \in {tag_keys[i] : i \in 1..Len(tag_keys)} |-> << >>]]]

\* _get_sample_data_fast: its except clause logs and returns the initial `info`
GetSampleDataFast(cx, measurement) ==
    LET info == [sample_data |-> << >>, time_range |-> << >>, last_entry |-> "No data"]
    IN  IF Raises(cx)
        THEN [cx |-> Logged(cx, "select_recent", measurement, FALSE, 0), ret |-> info]
        ELSE
        LET c1 == Logged(cx, "select_recent", measurement, TRUE, 0)
            sample_points == SelectRecent(c1.store, measurement, 3)
            times == Times(sample_points)
        IN  [cx |-> c1,
             ret |-> IF sample_points # << >>
                     THEN [sample_data |-> sample_points,
                           time_range  |-> <<IsoFormat(MinOf(times)), IsoFormat(MaxOf(times))>>,
                           last_entry  |-> StrfTime(MaxOf(times))]
                     ELSE info]

\* the fast variant. Both helpers catch every exception themselves, so the
\* except clause of lines 111-114 with its fallback to analyze_measurement is
\* never entered and the function never raises
AnalyzeMeasurementFast(cx, measurement) ==
    LET analysis == [name |-> measurement, total_points |-> 0, time_range |-> << >>,
                     fields |-> << >>, tags |-> << >>, sample_data |-> << >>,
                     last_entry |-> "No data"]
        basic_info  == GetBasicMeasurementInfo(cx, measurement)
        sample_data == GetSampleDataFast(basic_info.cx, measurement)
    IN  [cx |-> sample_data.cx,
         ret |-> Update(Update(analysis, basic_info.ret), sample_data.ret)]

\* rows of the inventory model
TwoFields ==
    [time |-> 2, tags |-> [tag_loc |-> "k"], fields |-> [value |-> 1, humidity |-> 7]]

WideOld ==
    [time |-> 26,
     tags |-> [host |-> "h", rack |-> "x", tag_loc |-> "k", tag_room |-> "x",
               unit |-> "x", zone |-> "h"],
     fields |-> [value |-> 8]]

Analyze ==
    \E measurement \in Names, F \in FaultSets(10) :
        LET r == AnalyzeMeasurement(Context(store, backups, F), measurement)
        IN  Finish(r.cx, [op |-> "analyze", measurement |-> measurement, ret |-> r.ret])

AnalyzeFast ==
    \E measurement \in Names, F \in FaultSets(10) :
        LET r == AnalyzeMeasurementFast(Context(store, backups, F), measurement)
        IN  Finish(r.cx, [op |-> "analyze_fast", measurement |-> measurement,
                          ret |-> r.ret])

InitAnalyze ==
    /\ \E ca \in SUBSET {KitchenOld, HallOld, KitchenNew, TwoFields},
          cb \in {{}, {HostOld}, {WideOld}, {WideOld, BothOld}} :
           store = StoreOf(ca, cb, {})
    /\ Fresh

NextAnalyze == last.op = "none" /\ (Analyze \/ AnalyzeFast)

SpecAnalyze == InitAnalyze /\ [][NextAnalyze]_vars

-----------------------------------------------------------------------------
(* analyze_measurements_parallel                                           *)

\* max_workers when the caller does not give it
DefaultMaxWorkers == 4

\* the name lists and pool sizes offered to the parallel analysis
ParallelLists == {<< >>, <<"a", "b", "a">>, <<"a", "b", "c", "c", "b">>}

ParallelWorkers == {1, 2, DefaultMaxWorkers}

TaskIndex == 1..Len(par.measurements)

Running(p) == {i \in 1..Len(p.measurements) : p.status[i] = "running"}

\* a pool that starts a task whatever the number of tasks running
AlwaysFree(p) == TRUE

\* ThreadPoolExecutor(max_workers): a worker thread is free to take a task
FreeWorker(p) == Cardinality(Running(p)) < p.max_workers

\* a collection that forgets the other entries when the task met a failure
CollectedAlone(results, measurement, task) ==
    IF task.faulted THEN measurement :> task.analysis
    ELSE Update(results, measurement :> task.analysis)

\* lines 73-79: results[measurement] = analysis, or the empty analysis when
\* future.result() raises
Collected(results, measurement, task) ==
    Update(results, measurement :> (IF task.raised THEN CreateEmptyAnalysis(measurement)
                                    ELSE task.analysis))

\* a loop that ends as soon as one future has been collected
AnyCollected(p) == \E i \in 1..Len(p.measurements) : p.status[i] = "collected"

\* as_completed is exhausted: every future has been yielded and collected
AllCollected(p) == \A i \in 1..Len(p.measurements) : p.status[i] = "collected"

\* lines 61-68: the pool is created and every name is submitted; `faulty` is
\* the task whose queries may raise, `F` the ordinals of its raising queries
ParSubmit ==
    /\ last.op = "none"
    /\ par.phase = "idle"
    /\ \E measurements \in ParallelLists, max_workers \in ParallelWorkers :
       \E faulty \in 1..Len(measurements) \cup {0}, F \in FaultSets(9) :
        /\ faulty = 0 => F = {}
        /\ faulty # 0 => F # {}
        /\ par' = [phase        |-> "running",
                   measurements |-> measurements,
                   max_workers  |-> max_workers,
                   fails        |-> [i \in 1..Len(measurements) |->
                                        IF i = faulty THEN F ELSE {}],
                   status       |-> [i \in 1..Len(measurements) |-> "queued"],
                   task         |-> [i \in 1..Len(measurements) |-> << >>],
                   results      |-> << >>]
    /\ UNCHANGED <<store, backups, calls, written, last, pre>>

\* a worker thread takes the oldest queued task
ParStart ==
    /\ par.phase = "running"
    /\ \E i \in TaskIndex :
        /\ par.status[i] = "queued"
        /\ \A j \in 1..(i - 1) : par.status[j] # "queued"
        /\ FreeWorker(par)
        /\ par' = [par EXCEPT !.status[i] = "running"]
    /\ UNCHANGED <<store, backups, calls, written, last, pre>>

\* a worker finishes analyze_measurement_fast for its name
ParComplete ==
    /\ par.phase = "running"
    /\ \E i \in TaskIndex :
        /\ par.status[i] = "running"
        /\ LET r == AnalyzeMeasurementFast(Context(store, backups, par.fails[i]),
                                           par.measurements[i])
           IN  par' = [par EXCEPT
                         !.status[i] = "done",
                         !.task[i] = [raised   |-> FALSE,
                                      faulted  |-> \E c \in 1..Len(r.cx.calls) :
                                                       ~r.cx.calls[c].ok,
                                      analysis |-> r.ret]]
    /\ UNCHANGED <<store, backups, calls, written, last, pre>>

\* as_completed yields a finished future and the loop body stores its result
ParCollect ==
    /\ par.phase = "running"
    /\ \E i \in TaskIndex :
        /\ par.status[i] = "done"
        /\ par' = [par EXCEPT
                     !.status[i] = "collected",
                     !.results = Collected(@, par.measurements[i], par.task[i])]
    /\ UNCHANGED <<store, backups, calls, written, last, pre>>

\* the loop is over, the pool is shut down and `results` is returned
ParReturn ==
    /\ par.phase = "running"
    /\ AllCollected(par)
    /\ par' = [par EXCEPT !.phase = "returned"]
    /\ last' = [op |-> "parallel", measurements |-> par.measurements, ret |-> par.results]
    /\ UNCHANGED <<store, backups, calls, written, pre>>

InitParallel ==
    /\ \E ca \in {{}, {KitchenOld, TwoFields}}, cb \in {{HostOld}}, cc \in {{WideOld}} :
           store = [StoreOf(ca, cb, {}) EXCEPT !["c"] = cc]
    /\ Fresh

NextParallel == ParSubmit \/ ParStart \/ ParComplete \/ ParCollect \/ ParReturn

SpecParallel == InitParallel /\ [][NextParallel]_vars

-----------------------------------------------------------------------------
(* get_problematic_measurements                                            *)

\* get_measurements: the listing, or the empty list when the query raises
GetMeasurements(cx) ==
    IF Raises(cx)
    THEN [cx |-> Logged(cx, "show_measurements", "", FALSE, 0), ret |-> << >>]
    ELSE [cx |-> Logged(cx, "show_measurements", "", TRUE, 0),
          ret |-> ShowMeasurements(cx.store)]

RECURSIVE Without(_, _)
\* str.replace(c, '')
Without(s, c) ==
    IF s = "" THEN ""
    ELSE (IF SubSeq(s, 1, 1) = c THEN "" ELSE SubSeq(s, 1, 1)) \o Without(SubSeq(s, 2, Len(s)), c)

\* name.lower().replace('_', '').replace('-', '')
Clean(name) == Without(Without(Lower(name), "_"), "-")

\* set(s)
Chars(s) == {SubSeq(s, i, i) : i \in 1..Len(s)}

\* a similarity that looks for the first name inside the second only
MeasurementsSimilarOneWay(name1, name2) ==
    LET clean1 == Clean(name1)
        clean2 == Clean(name2)
        longer == IF Len(clean1) > Len(clean2) THEN Len(clean1) ELSE Len(clean2)
    IN  /\ Len(clean1) > 3 /\ Len(clean2) > 3
        /\ Contains(clean2, clean1)

\* a similarity that looks at the shared characters only
MeasurementsSimilarByOverlap(name1, name2) ==
    LET clean1 == Clean(name1)
        clean2 == Clean(name2)
        longer == IF Len(clean1) > Len(clean2) THEN Len(clean1) ELSE Len(clean2)
    IN  /\ Len(clean1) > 3 /\ Len(clean2) > 3
        /\ 10 * Cardinality(Chars(clean1) \cap Chars(clean2)) > 7 * longer

\* _measurements_similar; the quotient compared with 0.7 is compared in tenths
MeasurementsSimilar(name1, name2) ==
    LET clean1 == Clean(name1)
        clean2 == Clean(name2)
        longer == IF Len(clean1) > Len(clean2) THEN Len(clean1) ELSE Len(clean2)
    IN  /\ Len(clean1) > 3 /\ Len(clean2) > 3
        /\ \/ Contains(clean2, clean1)
           \/ Contains(clean1, clean2)
           \/ 10 * Cardinality(Chars(clean1) \cap Chars(clean2)) > 7 * longer

\* analysis['total_points'] < min_points
IsLowData(analysis, min_points) == analysis.total_points < min_points

\* a heuristic met by many tag keys or by many points
IsMixedTopicEither(analysis) ==
    Cardinality(DOMAIN analysis.tags) > 3 \/ analysis.total_points > 100

\* len(analysis['tags']) > 3 and analysis['total_points'] > 100
IsMixedTopic(analysis) ==
    Cardinality(DOMAIN analysis.tags) > 3 /\ analysis.total_points > 100

RECURSIVE AnalysisLoop(_, _, _, _)
\* lines 274-284: the thorough inventory of every listed measurement and the
\* two tests on its snapshot
AnalysisLoop(cx, measurements, min_points, acc) ==
    IF measurements = << >> THEN [cx |-> cx, acc |-> acc]
    ELSE LET measurement == Head(measurements)
             r == AnalyzeMeasurement(cx, measurement)
             analysis == r.ret
         IN  AnalysisLoop(r.cx, Tail(measurements), min_points,
                 [analyses     |-> Append(acc.analyses, analysis),
                  low_data     |-> IF IsLowData(analysis, min_points)
                                   THEN Append(acc.low_data, measurement)
                                   ELSE acc.low_data,
                  mixed_topics |-> IF IsMixedTopic(analysis)
                                   THEN Append(acc.mixed_topics, measurement)
                                   ELSE acc.mixed_topics])

RECURSIVE InnerLoop(_, _, _)
\* lines 288-293: measurement1 against every later name of the listing
InnerLoop(measurement1, rest, duplicates) ==
    IF rest = << >> THEN duplicates
    ELSE LET measurement2 == Head(rest)
             similar == MeasurementsSimilar(measurement1, measurement2)
             d1 == IF similar /\ \A i \in 1..Len(duplicates) : duplicates[i] # measurement1
                   THEN Append(duplicates, measurement1) ELSE duplicates
             d2 == IF similar /\ \A i \in 1..Len(d1) : d1[i] # measurement2
                   THEN Append(d1, measurement2) ELSE d1
         IN  InnerLoop(measurement1, Tail(rest), d2)

RECURSIVE OuterLoop(_, _)
\* lines 287-293
OuterLoop(measurements, duplicates) ==
    IF measurements = << >> THEN duplicates
    ELSE OuterLoop(Tail(measurements),
                   InnerLoop(Head(measurements), Tail(measurements), duplicates))

\* ret is the dictionary returned, analyses the snapshots kept in
\* self.measurements, listing the names get_measurements returned
GetProblematicMeasurements(cx, min_points) ==
    LET listing == GetMeasurements(cx)
        loop == AnalysisLoop(listing.cx, listing.ret, min_points,
                             [analyses |-> << >>, low_data |-> << >>,
                              mixed_topics |-> << >>])
    IN  [cx |-> loop.cx,
         listing  |-> listing.ret,
         analyses |-> loop.acc.analyses,
         ret |-> [low_data     |-> loop.acc.low_data,
                  mixed_topics |-> loop.acc.mixed_topics,
                  duplicates   |-> OuterLoop(listing.ret, << >>)]]

\* n hourly rows of one series
Series(n, tags) == {[time |-> t, tags |-> tags, fields |-> [value |-> t]] : t \in 0..(n - 1)}

OneTag == [tag_loc |-> "k"]

FourTags == [host |-> "h", tag_loc |-> "k", tag_room |-> "x", zone |-> "h"]

\* min_points: the default and a threshold above every measurement
ThresholdInputs == {10, 200}

GetProblematic ==
    /\ last.op = "none"
    /\ \E min_points \in ThresholdInputs, F \in FaultSets(6) :
        LET r == GetProblematicMeasurements(Context(store, backups, F), min_points)
        IN  Finish(r.cx, [op |-> "classify", min_points |-> min_points,
                          listing |-> r.listing, analyses |-> r.analyses, ret |-> r.ret])

InitClassify ==
    /\ \E ck \in {{}, Series(12, OneTag), Series(101, FourTags)},
          co \in {{}, Series(3, OneTag)},
          ct \in {{}, {KitchenOld}},
          cl \in {{}, Series(100, FourTags), Series(101, OneTag), {WideOld}} :
           store = [StoreOf({}, {}, {}) EXCEPT !["temp_kitchen"] = ck,
                                               !["temp_kitchen_old"] = co,
                                               !["kitchen_temp"] = ct,
                                               !["cpu_load"] = cl]
    /\ Fresh

NextClassify == GetProblematic

SpecClassify == InitClassify /\ [][NextClassify]_vars

-----------------------------------------------------------------------------
(* _measurements_similar on its own                                        *)

\* the names offered to the similarity test: short and long ones, with
\* separators and capitals
SimilarNames ==
    {"a", "cpu", "c-p_u", "C_P-U_x", "load", "cpu_load", "CPU-Load", "temp_kitchen",
     "temp_kitchen_old", "kitchen_temp", "Kitchen", "t_e_m", "abcd", "dcba", "abcdefghij",
     "abcdefgxyz"}

\* the quiet state with a pair of names at hand
InitSimilar ==
    /\ store = StoreOf({}, {}, {})
    /\ backups = [m \in Measurements |-> NoBackup]
    /\ calls = << >>
    /\ written = << >>
    /\ pre = store
    /\ par = ParIdle
    /\ \E name1 \in SimilarNames, name2 \in SimilarNames :
          last = [op |-> "names", name1 |-> name1, name2 |-> name2]

\* _measurements_similar(name1, name2) and _measurements_similar(name2, name1)
Similar ==
    /\ last.op = "names"
    /\ last' = [op |-> "similar", name1 |-> last.name1, name2 |-> last.name2,
                ret |-> MeasurementsSimilar(last.name1, last.name2),
                swapped |-> MeasurementsSimilar(last.name2, last.name1)]
    /\ UNCHANGED <<store, backups, calls, written, pre, par>>

NextSimilar == Similar

SpecSimilar == InitSimilar /\ [][NextSimilar]_vars

-----------------------------------------------------------------------------
(* Every operation, once, on a store of rows with text tags               *)

InitBoundary ==
    /\ \E ca \in SUBSET {KitchenOld, KitchenNew}, cb \in {{}, {HostOld}} :
           store = StoreOf(ca, cb, {})
    /\ Fresh

NextBoundary ==
    /\ last.op = "none"
    /\ \/ Backup
       \/ Delete
       \/ Rename
       \/ CleanLowData
       \/ Aggregate
       \/ FilterByAge
       \/ Merge
       \/ Consolidate
       \/ Split
       \/ Analyze
       \/ AnalyzeFast

SpecBoundary == InitBoundary /\ [][NextBoundary]_vars

-----------------------------------------------------------------------------
(* The choice of the reducer on its own                                    *)

\* field names: the three of the scenario and names put together from a
\* prefix, a word and a suffix, so that keywords of several reducers meet
FieldNames ==
    {"cpu_total_count", "cpu_temp_max", "cpu_usage"}
    \cup {prefix \o word \o suffix :
            prefix \in {"", "cpu_", "Peak_"},
            word   \in {"count", "total", "sum", "max", "peak", "highest", "min", "lowest",
                        "usage", "Count", "MAX", "mi_n"},
            suffix \in {"", "_min", "_Sum", "_x"}}

\* the quiet state with a field name at hand
InitReducer ==
    /\ store = StoreOf({}, {}, {})
    /\ backups = [m \in Measurements |-> NoBackup]
    /\ calls = << >>
    /\ written = << >>
    /\ pre = store
    /\ par = ParIdle
    /\ \E field \in FieldNames : last = [op |-> "field", field |-> field]

\* lines 355-364 for one field
ChooseReducer ==
    /\ last.op = "field"
    /\ last' = [op |-> "reducer", field |-> last.field, ret |-> Reducer(last.field)]
    /\ UNCHANGED <<store, backups, calls, written, pre, par>>

NextReducer == ChooseReducer

SpecReducer == InitReducer /\ [][NextReducer]_vars

-----------------------------------------------------------------------------
(* Age-based cleaning of a dense measurement                               *)

\* n rows, one per hour from hour 0 on, each carrying the fields fs
Dense(n, fs) ==
    {[time |-> t, tags |-> [tag_loc |-> 1], fields |-> [f \in fs |-> 1]] : t \in 0..(n - 1)}

\* the field keys of a wide measurement: twenty of them
WideFields == {"f" \o a \o b : a \in {"0", "1"},
                               b \in {"0", "1", "2", "3", "4", "5", "6", "7", "8", "9"}}

\* row counts and field sets of the dense measurement
DenseSizes == {1, 2, 49, 50, 51}

DenseFields == {{"value"}, WideFields}

\* cutoffs: one inside and one after the rows of the dense measurement
DenseCutoffs == {40, 60}

\* numbers of old points around the thresholds of lines 431-438
OldCounts == {1, 999, 1000, 1001, 5000, 9999, 10000, 10001, 49999, 50000, 50001, 60000}

InitDensity ==
    /\ \E n \in DenseSizes, fs \in DenseFields : store = StoreOf(Dense(n, fs), {}, {})
    /\ Fresh

\* filter_and_clean_by_age(['a'], action='aggregate')
AgeAggregate ==
    \E cutoff \in DenseCutoffs, F \in FaultSets(7) :
        LET r == FilterAndCleanByAge(Context(store, backups, F), <<"a">>, cutoff, "aggregate")
        IN  Finish(r.cx, [op |-> "filter_and_clean_by_age", measurements |-> <<"a">>,
                          cutoff |-> cutoff, action |-> "aggregate", ret |-> r.ret])

\* lines 431-438 for a given number of old points
Density ==
    /\ \E old_count \in OldCounts :
           last' = [op |-> "density", old_count |-> old_count,
                    ret |-> ChooseAggregation(old_count)]
    /\ UNCHANGED <<store, backups, calls, written, pre, par>>

NextDensity == last.op = "none" /\ (AgeAggregate \/ Density)

SpecDensity == InitDensity /\ [][NextDensity]_vars

-----------------------------------------------------------------------------
(* The hierarchies of the measurement tree: by tags and by topics          *)

\* the value None of a node's latest_entry
None == "None"

\* the characters of the strings compared below, in the order of their codes
CharOrder == " -0123456789:" \o UpperCase \o LowerCase

CharRank(c) == CHOOSE i \in 1..Len(CharOrder) : SubSeq(CharOrder, i, i) = c

RECURSIVE StrGreater(_, _)
\* s > t on strings
StrGreater(s, t) ==
    IF s = "" THEN FALSE
    ELSE IF t = "" THEN TRUE
    ELSE LET a == CharRank(SubSeq(s, 1, 1))
             b == CharRank(SubSeq(t, 1, 1))
         IN  IF a # b THEN a > b
             ELSE StrGreater(SubSeq(s, 2, Len(s)), SubSeq(t, 2, Len(t)))

\* analysis.get(key, default)
Get(analysis, key, default) == IF key \in DOMAIN analysis THEN analysis[key] ELSE default

\* a node as it is created
NewNode ==
    [children |-> << >>, measurements |-> << >>,
     stats |-> [count |-> 0, total_points |-> 0, latest_entry |-> None]]

\* count += 1 and total_points += analysis.get('total_points', 0)
Counted(stats, analysis) ==
    [stats EXCEPT !.count = @ + 1,
                  !.total_points = @ + Get(analysis, "total_points", 0)]

\* the update of latest_entry: lines 676-680 and 733-737
Latest(stats, analysis) ==
    LET entry_time == Get(analysis, "last_entry", "")
    IN  IF entry_time # "" /\ entry_time # "No data"
            /\ (stats.latest_entry = None \/ StrGreater(entry_time, stats.latest_entry))
        THEN [stats EXCEPT !.latest_entry = entry_time]
        ELSE stats

\* a measurement added to a node: appended, counted, latest entry updated
Added(node, entry) ==
    [node EXCEPT !.measurements = Append(@, entry),
                 !.stats = Latest(Counted(@, entry.analysis), entry.analysis)]

RECURSIVE TagValuesLoop(_, _, _)
\* for tag_value in tag_values: lines 658-680
TagValuesLoop(node, entry, tag_values) ==
    IF tag_values = << >> THEN node
    ELSE LET tag_value == Head(tag_values)
             child == IF tag_value \in DOMAIN node.children
                      THEN node.children[tag_value] ELSE NewNode
         IN  TagValuesLoop([node EXCEPT !.children = (tag_value :> Added(child, entry)) @@ @],
                           entry, Tail(tag_values))

\* "Update parent stats": lines 682-684
TagKeyStats(stats, analysis) == Counted(stats, analysis)

RECURSIVE TagKeysLoop(_, _, _)
\* for tag_key, tag_values in tags.items(): lines 649-684; the groups of
\* different keys do not depend on the order of the keys
TagKeysLoop(tag_groups, entry, tag_keys) ==
    IF tag_keys = {} THEN tag_groups
    ELSE LET tag_key == CHOOSE k \in tag_keys : TRUE
             node    == IF tag_key \in DOMAIN tag_groups THEN tag_groups[tag_key] ELSE NewNode
             filled  == TagValuesLoop(node, entry, entry.analysis.tags[tag_key])
             done    == [filled EXCEPT !.stats = TagKeyStats(@, entry.analysis)]
         IN  TagKeysLoop((tag_key :> done) @@ tag_groups, entry, tag_keys \ {tag_key})

RECURSIVE TagsLoop(_, _)
\* for name, analysis in measurements.items(): lines 642-684
TagsLoop(tag_groups, measurements) ==
    IF measurements = << >> THEN tag_groups
    ELSE LET entry == Head(measurements)
             tags  == Get(entry.analysis, "tags", << >>)
         IN  IF DOMAIN tags = {} THEN TagsLoop(tag_groups, Tail(measurements))
             ELSE TagsLoop(TagKeysLoop(tag_groups, entry, DOMAIN tags), Tail(measurements))

\* _group_by_tags: `measurements` is the dictionary as the list of its items
GroupByTags(measurements) == TagsLoop(<< >>, measurements)

\* the `topics` table of _group_by_topics
Topics ==
    [sensor     |-> {"temp", "temperature", "humid", "pressure", "light", "motion",
                     "distance"},
     system     |-> {"cpu", "memory", "disk", "network", "load", "uptime"},
     power      |-> {"voltage", "current", "power", "battery", "energy"},
     weather    |-> {"weather", "wind", "rain", "sun", "cloud"},
     home       |-> {"home", "room", "kitchen", "living", "bedroom", "garage"},
     vehicle    |-> {"car", "truck", "vehicle", "engine", "fuel", "speed"},
     industrial |-> {"machine", "production", "factory", "pump", "motor"}]

\* the topics in the order of the table
TopicOrder == <<"sensor", "system", "power", "weather", "home", "vehicle", "industrial">>

\* topics matched by the name as it is written
MatchedTopicsExactCase(name, topics) ==
    LET matched == SelectSeq(TopicOrder,
                             LAMBDA topic : \E keyword \in topics[topic] :
                                                Contains(name, keyword))
    IN  IF matched = << >> THEN <<"other">> ELSE matched

\* lines 703-713: the topics with a keyword in the lower-cased name, else 'other'
MatchedTopics(name, topics) ==
    LET name_lower == Lower(name)
        matched == SelectSeq(TopicOrder,
                             LAMBDA topic : \E keyword \in topics[topic] :
                                                Contains(name_lower, keyword))
    IN  IF matched = << >> THEN <<"other">> ELSE matched

RECURSIVE MatchedLoop(_, _, _)
\* for topic in matched_topics: lines 716-737
MatchedLoop(topic_groups, entry, matched_topics) ==
    IF matched_topics = << >> THEN topic_groups
    ELSE LET topic == Head(matched_topics)
             node  == IF topic \in DOMAIN topic_groups THEN topic_groups[topic] ELSE NewNode
         IN  MatchedLoop((topic :> Added(node, entry)) @@ topic_groups, entry,
                         Tail(matched_topics))

RECURSIVE TopicsLoop(_, _, _)
\* for name, analysis in measurements.items(): lines 702-737
TopicsLoop(topic_groups, measurements, topics) ==
    IF measurements = << >> THEN topic_groups
    ELSE LET entry == Head(measurements)
         IN  TopicsLoop(MatchedLoop(topic_groups, entry, MatchedTopics(entry.name, topics)),
                        Tail(measurements), topics)

\* _group_by_topics, with its table as a parameter
GroupByTopics(measurements, topics) == TopicsLoop(<< >>, measurements, topics)

\* names of the measurements of the tree
TreeNames == {"temp_kitchen", "CPU_Load", "b"}

\* analyses of a measurement as the inventory leaves them: the failure value,
\* an empty measurement, measurements with one key and with two keys, one whose
\* key has no listed value, and a thorough analysis cut short before the sample
AnalysisInputs(name) ==
    {CreateEmptyAnalysis(name),
     [name |-> name, total_points |-> 0, tags |-> << >>, last_entry |-> "No data"],
     [name |-> name, total_points |-> 2, tags |-> [host |-> <<"h">>],
      last_entry |-> StrfTime(1)],
     [name |-> name, total_points |-> 3, tags |-> [host |-> <<"h", "k">>, zone |-> <<"x">>],
      last_entry |-> StrfTime(30)],
     [name |-> name, total_points |-> 1, tags |-> [zone |-> << >>],
      last_entry |-> StrfTime(5)],
     [name |-> name, total_points |-> 4, tags |-> [host |-> <<"k">>]]}

\* dictionaries of one and of two analysed measurements, as lists of items
TreeInputs ==
    {<<[name |-> n, analysis |-> a]>> : n \in TreeNames, a \in UNION {AnalysisInputs(m) : m \in TreeNames}}
    \cup {<<[name |-> n1, analysis |-> a1], [name |-> n2, analysis |-> a2]>> :
            n1 \in TreeNames, n2 \in TreeNames,
            a1 \in UNION {AnalysisInputs(m) : m \in TreeNames},
            a2 \in UNION {AnalysisInputs(m) : m \in TreeNames}}

\* the items are keyed by distinct names and each analysis is that of its key
IsDictionary(measurements) ==
    /\ \A i \in DOMAIN measurements : measurements[i].analysis.name = measurements[i].name
    /\ \A i, j \in DOMAIN measurements : i # j => measurements[i].name # measurements[j].name

InitTree ==
    /\ store = StoreOf({}, {}, {})
    /\ backups = [m \in Measurements |-> NoBackup]
    /\ calls = << >>
    /\ written = << >>
    /\ pre = store
    /\ par = ParIdle
    /\ \E measurements \in TreeInputs :
           /\ IsDictionary(measurements)
           /\ last = [op |-> "analyzed", measurements |-> measurements]

ByTags ==
    /\ last.op = "analyzed"
    /\ last' = [op |-> "group_by_tags", measurements |-> last.measurements,
                ret |-> GroupByTags(last.measurements)]
    /\ UNCHANGED <<store, backups, calls, written, pre, par>>

ByTopics ==
    /\ last.op = "analyzed"
    /\ last' = [op |-> "group_by_topics", measurements |-> last.measurements,
                ret |-> GroupByTopics(last.measurements, Topics)]
    /\ UNCHANGED <<store, backups, calls, written, pre, par>>

NextTree == ByTags \/ ByTopics

SpecTree == InitTree /\ [][NextTree]_vars

-----------------------------------------------------------------------------
(* The classifier and clean_low_data_measurements on the same store        *)

InitCompare ==
    /\ \E ck \in {{}, Series(3, OneTag), Series(12, OneTag)},
          cl \in {{}, {WideOld}, Series(12, FourTags)},
          ca \in {{}, {KitchenOld}, {KitchenOld, TwoFields}} :
           store = [StoreOf(ca, {}, {}) EXCEPT !["temp_kitchen"] = ck,
                                               !["cpu_load"] = cl]
    /\ Fresh

\* clean_low_data_measurements with the threshold of a classification that has
\* just returned without a failed query; the classifier only reads the store
CleanAfterClassify ==
    /\ last.op = "classify"
    /\ \A i \in DOMAIN calls : calls[i].ok
    /\ \E action \in CleanActions, time_column \in BOOLEAN :
        LET r == CleanLowDataMeasurements(Context(store, backups, {}), last.min_points,
                                          action, time_column)
        IN  Finish(r.cx, [op |-> "clean_low_data", min_points |-> last.min_points,
                          action |-> action, time_column |-> time_column,
                          low_data |-> last.ret.low_data, ret |-> r.ret])

NextCompare == GetProblematic \/ CleanAfterClassify

SpecCompare == InitCompare /\ [][NextCompare]_vars

-----------------------------------------------------------------------------
(* The age-based operations on rows at the cutoff                          *)

\* a row whose time is the first of the cutoffs
AtCutoff == [time |-> 2, tags |-> [tag_loc |-> 1], fields |-> [value |-> 5]]

InitCutoff ==
    /\ \E ca \in SUBSET {OldMarked, OldPlain, AtCutoff, RecentMarked},
          cb \in {{}, {OldMarked, AtCutoff}},
          ct \in {{}, {OldAggregated, AtCutoff}} :
           store = StoreOf(ca, cb, ct)
    /\ Fresh

\* one invocation of aggregate_old_data or of filter_and_clean_by_age
NextCutoff == last.op = "none" /\ (Aggregate \/ FilterByAge)

SpecCutoff == InitCutoff /\ [][NextCutoff]_vars

-----------------------------------------------------------------------------
(* Vocabulary of the properties                                            *)

CallIndex == 1..Len(calls)

\* a DROP MEASUREMENT or a DELETE ... WHERE time < cutoff, issued (ok or not)
IsDestructive(c) == c.kind \in {"drop", "delete_older"}

\* a successful export of the same measurement comes earlier in the log
ExportedBefore(i) ==
    \E j \in 1..(i - 1) :
        calls[j].kind = "export" /\ calls[j].ok /\ calls[j].m = calls[i].m

\* call i is a failed step of a backup: its query or its export raised (a query
\* that directly follows the export of the same measurement is rename's fetch)
BackupFailedAt(i) ==
    /\ calls[i].kind \in {"select_all", "export"}
    /\ ~calls[i].ok
    /\ ~(i > 1 /\ calls[i].kind = "select_all" /\ calls[i - 1].kind = "export"
               /\ calls[i - 1].m = calls[i].m)

\* measurement m is reported as failed by the last invocation
ReportedFailed(m) ==
    IF last.op \in {"rename", "aggregate_old_data"}
    THEN last.ret = FALSE
    ELSE m \in DOMAIN last.ret /\ last.ret[m] = FALSE

ListSet(ms) == {ms[i] : i \in DOMAIN ms}

RowKeys(rows) == {<<r.time, r.tags>> : r \in rows}

\* the rows of `rows` older than the cutoff
Older(rows, cutoff) == {r \in rows : r.time < cutoff}

\* the point count of a measurement: the sum of the counts of its fields
PointCount(rows) == SumNumericAll(CountPoints(rows, TRUE))

\* call c is made while processing measurement m or its aggregation target
Concerns(c, m) == c.m = m \/ \E g \in IntervalKeys : c.m = AggregatedName(m, g)

-----------------------------------------------------------------------------
(* Properties                                                              *)

GatedOperation ==
    \/ last.op \in {"rename", "aggregate_old_data"}
    \/ last.op = "clean_low_data" /\ last.action = "delete"
    \/ last.op = "filter_and_clean_by_age" /\ last.action \in {"aggregate", "delete"}

\* C1: in clean-low-data with action delete, aggregate-old-data, the age-based
\* batch clean and rename, every drop or delete issued on a measurement comes
\* after a successful export of that measurement in the same invocation, and a
\* measurement whose backup failed gets no drop or delete and is reported failed.
C1_BackupBeforeDestroy ==
    GatedOperation =>
        \A i \in CallIndex :
            /\ IsDestructive(calls[i]) => ExportedBefore(i)
            /\ BackupFailedAt(i) =>
                  /\ ReportedFailed(calls[i].m)
                  /\ \A k \in CallIndex :
                        IsDestructive(calls[k]) => calls[k].m # calls[i].m

\* an age-based batch delete in which the backup of one measurement failed and
\* the old rows of another were deleted after its backup
C1_Witness ==
    /\ last.op = "filter_and_clean_by_age" /\ last.action = "delete"
    /\ \E i \in CallIndex, k \in CallIndex :
          /\ BackupFailedAt(i)
          /\ calls[k].kind = "delete_older" /\ calls[k].ok /\ calls[k].m # calls[i].m
          /\ ExportedBefore(k)
          /\ store[calls[k].m] # pre[calls[k].m]

\* C2: whenever delete_measurement issues the drop of a measurement that holds
\* rows, an export artifact of that measurement with the row count it holds at
\* the drop has been produced before (in this invocation or in an earlier one).
C2_DropHasBackup ==
    \A i \in CallIndex :
        (calls[i].kind = "drop" /\ calls[i].n > 0) =>
            \/ \E j \in 1..(i - 1) :
                  /\ calls[j].kind = "export" /\ calls[j].ok
                  /\ calls[j].m = calls[i].m /\ calls[j].n = calls[i].n
            \/ /\ \A j \in CallIndex :
                     ~(calls[j].kind = "export" /\ calls[j].ok /\ calls[j].m = calls[i].m)
               /\ backups[calls[i].m].measurement = calls[i].m
               /\ backups[calls[i].m].data_points = calls[i].n

\* C3: a delete without the confirmation flag reports failure, makes no store
\* call and leaves the store as it was.
C3_UnconfirmedDelete ==
    (last.op = "delete" /\ ~last.confirm) =>
        /\ last.ret = FALSE
        /\ calls = << >>
        /\ store = pre

\* an unconfirmed delete of a measurement that holds rows
C3_Witness ==
    /\ last.op = "delete" /\ ~last.confirm
    /\ pre[last.measurement] # {}

\* C4: an aggregate-old-data invocation whose aggregation query produced no
\* row reports failure and deletes no row of the measurement, whatever the
\* target held before.
C4_EmptyAggregationAborts ==
    (/\ last.op = "aggregate_old_data"
     /\ \E i \in CallIndex : calls[i].kind = "agg_into" /\ calls[i].ok /\ calls[i].n = 0)
    => /\ last.ret = FALSE
       /\ store[last.measurement] = pre[last.measurement]

\* the backup of a rename failed: its query or its export raised
RenameBackupFailed ==
    /\ Len(calls) >= 1
    /\ \/ ~calls[1].ok
       \/ Len(calls) >= 2 /\ calls[2].kind = "export" /\ ~calls[2].ok

\* C5: a rename that stops before the copy, because the backup of old failed or
\* because old holds no row, reports failure, writes nothing, drops nothing and
\* leaves the store as it was.
C5_RenameAbortsBeforeCopy ==
    (last.op = "rename" /\ (RenameBackupFailed \/ pre[last.old_name] = {})) =>
        /\ last.ret = FALSE
        /\ \A i \in CallIndex : calls[i].kind \notin {"write", "drop"}
        /\ store = pre

\* a rename of a measurement that holds rows, whose backup failed
C5_Witness ==
    /\ last.op = "rename"
    /\ RenameBackupFailed
    /\ pre[last.old_name] # {}

\* the copy of a rename was written and the drop of old raised
CopiedButNotDropped ==
    /\ last.op = "rename"
    /\ \E i \in CallIndex, k \in CallIndex :
          /\ i < k
          /\ calls[i].kind = "write" /\ calls[i].ok
          /\ calls[k].kind = "drop" /\ ~calls[k].ok

\* the (time, tags) under which rename writes a row: tags are the marked columns
CopiedKey(r) ==
    <<r.time, [k \in {t \in DOMAIN r.tags : StartsWithTag(t)} |-> r.tags[k]]>>

\* C6: when the copy of a rename was written and the drop of old failed, rename
\* reports failure and the rows stay under old and under new: nothing is rolled
\* back.
C6_RenameDropFailed ==
    CopiedButNotDropped =>
        /\ last.ret = FALSE
        /\ RowKeys(pre[last.old_name]) \subseteq RowKeys(store[last.old_name])
        /\ last.old_name # last.new_name =>
               store[last.old_name] = pre[last.old_name]
        /\ \A r \in pre[last.old_name] : CopiedKey(r) \in RowKeys(store[last.new_name])
        /\ store[last.old_name] # {} /\ store[last.new_name] # {}

\* a rename to another name whose drop failed after the copy
C6_Witness ==
    /\ CopiedButNotDropped
    /\ last.old_name # last.new_name

\* C7: clean-low-data with action delete, run against the client's COUNT rows
\* and without any failing call, returns a map whose keys are exactly the listed
\* measurements with a point count below min_points, each mapped to true iff it
\* was backed up and dropped.
C7_CleanResultMap ==
    (/\ last.op = "clean_low_data" /\ last.action = "delete"
     /\ last.time_column
     /\ \A i \in CallIndex : calls[i].ok)
    => /\ DOMAIN last.ret =
              {m \in Measurements : pre[m] # {} /\ PointCount(pre[m]) < last.min_points}
       /\ \A m \in DOMAIN last.ret :
              last.ret[m] = \E k \in CallIndex :
                                /\ calls[k].kind = "drop" /\ calls[k].ok /\ calls[k].m = m
                                /\ ExportedBefore(k)

\* C8: in clean-low-data a failing count query does not end the batch: the
\* measurement is reported as failed and every listed measurement is counted.
C8_CleanContinues ==
    last.op = "clean_low_data" =>
        \A i \in CallIndex :
            (calls[i].kind = "count" /\ ~calls[i].ok) =>
                /\ calls[i].m \in DOMAIN last.ret /\ last.ret[calls[i].m] = FALSE
                /\ \A m \in Measurements :
                      pre[m] # {} =>
                          \E k \in CallIndex : calls[k].kind = "count" /\ calls[k].m = m

\* the batch clean of measurement m alone, on the same store, without faults
Alone(m) ==
    FilterAndCleanByAge(Context(pre, backups, {}), <<m>>, last.cutoff, last.action)

\* C9: the age-based batch clean returns an entry for every measurement of its
\* list and counts each of them; a failing call makes the entry of the
\* measurement it concerns false, and a measurement none of whose calls failed
\* gets the entry and the rows it gets when it is processed alone.
C9_AgeBatchIsolation ==
    last.op = "filter_and_clean_by_age" =>
        /\ DOMAIN last.ret = ListSet(last.measurements)
        /\ \A m \in ListSet(last.measurements) :
              /\ \E i \in CallIndex : calls[i].kind = "count_older" /\ calls[i].m = m
              /\ (\E i \in CallIndex : Concerns(calls[i], m) /\ ~calls[i].ok)
                     => last.ret[m] = FALSE
              /\ (\A i \in CallIndex : Concerns(calls[i], m) => calls[i].ok)
                     => /\ last.ret[m] = Alone(m).ret[m]
                        /\ store[m] = Alone(m).cx.store[m]

\* a batch over a and b in which a call for a failed and b was then cleaned
C9_Witness ==
    /\ last.op = "filter_and_clean_by_age"
    /\ last.measurements = <<"a", "b">>
    /\ \E i \in CallIndex, k \in CallIndex :
          /\ i < k
          /\ calls[i].m = "a" /\ ~calls[i].ok
          /\ calls[k].kind = "delete_older" /\ calls[k].m = "b" /\ calls[k].ok
    /\ last.ret["a"] = FALSE
    /\ last.ret["b"] = TRUE

UnknownAction ==
    /\ last.op = "filter_and_clean_by_age"
    /\ last.action \notin {"aggregate", "delete"}

C11_NoOldDataNoOp ==
    last.op = "filter_and_clean_by_age" =>
        \A m \in ListSet(last.measurements) :
            (/\ Older(pre[m], last.cutoff) = {}
             /\ \E i \in CallIndex :
                   calls[i].kind = "count_older" /\ calls[i].m = m /\ calls[i].ok)
            => /\ last.ret[m] = TRUE
               /\ \A i \in CallIndex : Concerns(calls[i], m) => calls[i].kind = "count_older"
               /\ backups[m] = NoBackup
               /\ \A t \in Measurements :
                     (t = m \/ \E g \in IntervalKeys : t = AggregatedName(m, g))
                         => store[t] = pre[t]

\* a batch delete over a measurement that holds rows, none of them old, next to
\* a measurement whose old rows were deleted
C11_Witness ==
    /\ last.op = "filter_and_clean_by_age" /\ last.action = "delete"
    /\ \E m \in ListSet(last.measurements), k \in ListSet(last.measurements) :
          /\ pre[m] # {} /\ Older(pre[m], last.cutoff) = {}
          /\ last.ret[m] = TRUE /\ store[m] = pre[m]
          /\ k # m /\ store[k] # pre[k]

-----------------------------------------------------------------------------
(* Properties of merge_measurements                                        *)

RECURSIVE ReplayTo(_)
\* the store once the first k written batches have been applied to `pre`
ReplayTo(k) ==
    IF k = 0 \/ k > Len(written) THEN pre
    ELSE WriteRows(ReplayTo(k - 1), written[k].points)

RECURSIVE BatchesBefore(_)
\* the number of sources before the j-th that held rows when they were fetched
BatchesBefore(j) ==
    IF j = 1 THEN 0
    ELSE LET n == BatchesBefore(j - 1)
         IN  IF ReplayTo(n)[last.sources[j - 1]] # {} THEN n + 1 ELSE n

\* the rows the j-th source held when it was fetched
RowsAtFetch(j) == ReplayTo(BatchesBefore(j))[last.sources[j]]

\* the point the merge is to write for row r of source s: the row's time, its
\* fields and its unmarked tag columns as fields, the mapped columns and the
\* source name as tags
ExpectedMerged(r, s) ==
    LET unmarked == {t \in DOMAIN r.tags : ~StartsWithTag(t)}
        column(c) == IF c \in DOMAIN r.fields THEN r.fields[c] ELSE r.tags[c]
        mapped   == {o \in DOMAIN last.tag_mapping : o \in DOMAIN r.fields \cup DOMAIN r.tags}
    IN  [measurement |-> last.target,
         time   |-> r.time,
         fields |-> [c \in DOMAIN r.fields \cup unmarked |-> column(c)],
         tags   |-> [t \in {last.tag_mapping[o] : o \in mapped} \cup {"source_measurement"} |->
                        IF t = "source_measurement" THEN s
                        ELSE column(CHOOSE o \in mapped : last.tag_mapping[o] = t)]]

RECURSIVE TotalWritten(_)
TotalWritten(k) == IF k = 0 THEN 0 ELSE Len(written[k].points) + TotalWritten(k - 1)

RECURSIVE TotalFetched(_)
TotalFetched(j) == IF j = 0 THEN 0 ELSE Cardinality(RowsAtFetch(j)) + TotalFetched(j - 1)

SomeCallRaised == \E i \in CallIndex : ~calls[i].ok

\* C12: a merge over a non-empty source list reports failure only when a fetch
\* or a write raised; a source without rows gets no write; when no source holds
\* rows nothing is written, the store is unchanged and, unless a fetch raised,
\* the merge reports success.
C12_EmptySourcesSkipped ==
    (last.op = "merge" /\ last.sources # << >>) =>
        /\ last.ret = FALSE => SomeCallRaised
        /\ \A j \in DOMAIN last.sources :
              (pre[last.sources[j]] = {} /\ last.sources[j] # last.target) =>
                  \A k \in DOMAIN written : written[k].source # last.sources[j]
        /\ (\A j \in DOMAIN last.sources : pre[last.sources[j]] = {}) =>
              /\ written = << >>
              /\ \A i \in CallIndex : calls[i].kind # "write"
              /\ store = pre
              /\ ~SomeCallRaised => last.ret = TRUE

\* a merge of an empty and a non-empty source that succeeds with one batch
C12_Witness ==
    /\ last.op = "merge" /\ Len(last.sources) = 2
    /\ pre[last.sources[1]] = {} /\ pre[last.sources[2]] # {}
    /\ last.ret = TRUE
    /\ Len(written) = 1 /\ written[1].source = last.sources[2]

\* C13: a successful merge writes one batch per source that holds rows when it
\* is fetched, in the order of the list; the batch holds one point per row of
\* the source, namely the point ExpectedMerged describes, and the number of
\* points written in all is the sum of the row counts of the sources.
C13_MergedRows ==
    (last.op = "merge" /\ last.ret = TRUE) =>
        /\ Len(written) = BatchesBefore(Len(last.sources) + 1)
        /\ \A j \in DOMAIN last.sources :
              RowsAtFetch(j) # {} =>
                  LET batch == written[BatchesBefore(j) + 1]
                  IN  /\ batch.source = last.sources[j]
                      /\ Len(batch.points) = Cardinality(RowsAtFetch(j))
                      /\ {batch.points[i] : i \in DOMAIN batch.points}
                            = {ExpectedMerged(r, last.sources[j]) : r \in RowsAtFetch(j)}
        /\ TotalWritten(Len(written)) = TotalFetched(Len(last.sources))

\* a successful merge of two sources that hold rows, with a tag mapping that
\* applies to a row and with a row that carries an unmarked tag
C13_Witness ==
    /\ last.op = "merge" /\ last.ret = TRUE
    /\ Len(written) = 2
    /\ Len(written[1].points) = 2
    /\ \E i \in DOMAIN written[1].points :
          "location" \in DOMAIN written[1].points[i].tags
    /\ \E i \in DOMAIN written[2].points :
          "host" \in DOMAIN written[2].points[i].fields

C15_MergePartial ==
    (last.op = "merge" /\ SomeCallRaised) =>
        /\ last.ret = FALSE
        /\ store = ReplayTo(Len(written))
        /\ \A k \in DOMAIN written : \A i \in DOMAIN written[k].points :
              <<written[k].points[i].time, written[k].points[i].tags>>
                  \in RowKeys(store[last.target])

\* a merge whose second source failed after the batch of the first was written
C15_Witness ==
    /\ last.op = "merge" /\ last.ret = FALSE
    /\ Len(written) = 1 /\ written[1].source = last.sources[1]
    /\ \E i \in CallIndex : ~calls[i].ok /\ calls[i].m = last.sources[2]
    /\ store[last.target] # pre[last.target]

\* C16: merge_measurements called with fewer than two sources reports failure
\* and makes no store call.
C16_FewSourcesRejected ==
    (last.op = "merge" /\ Len(last.sources) < 2) =>
        /\ last.ret = FALSE
        /\ calls = << >>

-----------------------------------------------------------------------------
(* Properties of aggregate_old_data, continued                             *)

\* C17: aggregate_old_data called with a granularity that is not a key of the
\* intervals dictionary reports failure and makes no call at all: no backup
\* query, no field-key query, no aggregation query, no delete.
C17_UnknownGranularityRejected ==
    (last.op = "aggregate_old_data" /\ last.aggregation \notin IntervalKeys) =>
        /\ last.ret = FALSE
        /\ calls = << >>

-----------------------------------------------------------------------------
(* Properties of split_measurement_by_tag                                  *)

\* the tag values SHOW TAG VALUES listed to the last split, as a set and in order
Listed ==
    {v \in TagValues :
        RowsWhere(pre[last.measurement], last.tag_key, v) # {} \/ v \in last.stale}

ListedSeq == SelectSeq(TagValueOrder, LAMBDA v : v \in Listed)

\* the rows of the split measurement that carry value v of the split tag
Matching(v) == RowsWhere(pre[last.measurement], last.tag_key, v)

NewName(v) == SplitName(last.measurement, v)

\* a call was made for tag value v / the filtered fetch for v returned
ProcessedValue(v) == \E i \in CallIndex : calls[i].m = NewName(v)

FetchedValue(v) ==
    \E i \in CallIndex :
        calls[i].kind = "select_where" /\ calls[i].m = NewName(v) /\ calls[i].ok

\* the written batches whose points go to measurement `name`
BatchesTo(name) ==
    {k \in DOMAIN written :
        \E i \in DOMAIN written[k].points : written[k].points[i].measurement = name}

\* the point the split is to write for row r: the row's time, its fields and
\* unmarked tags as fields, its marked tags and the source name as tags, the
\* split tag left out
ExpectedSplit(r, name) ==
    LET others == DOMAIN r.tags \ {last.tag_key}
        fkeys  == (DOMAIN r.fields \ {last.tag_key}) \cup {t \in others : ~StartsWithTag(t)}
        tkeys  == {t \in others : StartsWithTag(t)} \cup {"source_measurement"}
    IN  [measurement |-> name,
         time   |-> r.time,
         fields |-> [c \in fkeys |-> IF c \in DOMAIN r.fields THEN r.fields[c] ELSE r.tags[c]],
         tags   |-> [t \in tkeys |->
                        IF t = "source_measurement" THEN last.measurement ELSE r.tags[t]]]

\* C18: in a split, a listed tag value whose filtered fetch returns no row is
\* recorded as false for {measurement}_{value}, nothing is written for it, and
\* the next listed value is still processed; when no tag value is listed the
\* result map is empty and nothing is written.
C18_EmptyTagValue ==
    last.op = "split" =>
        /\ \A v \in Listed :
              (Matching(v) = {} /\ FetchedValue(v)) =>
                  /\ NewName(v) \in DOMAIN last.ret
                  /\ last.ret[NewName(v)] = FALSE
                  /\ BatchesTo(NewName(v)) = {}
                  /\ \A i \in CallIndex :
                        calls[i].m = NewName(v) => calls[i].kind = "select_where"
                  /\ store[NewName(v)] = pre[NewName(v)]
        /\ \A j \in 1..(Len(ListedSeq) - 1) :
              (Matching(ListedSeq[j]) = {} /\ FetchedValue(ListedSeq[j])) =>
                  ProcessedValue(ListedSeq[j + 1])
        /\ Listed = {} =>
              /\ last.ret = << >>
              /\ written = << >>
              /\ store = pre

\* a split whose first listed value has no rows and whose second one has
C18_Witness ==
    /\ last.op = "split" /\ Len(ListedSeq) = 2
    /\ Matching(ListedSeq[1]) = {} /\ Matching(ListedSeq[2]) # {}
    /\ last.ret[NewName(ListedSeq[1])] = FALSE
    /\ last.ret[NewName(ListedSeq[2])] = TRUE
    /\ BatchesTo(NewName(ListedSeq[2])) # {}

\* C19: in a split whose tag values were listed, every listed value is fetched,
\* and a fetch or write that raised leaves its sub-measurement recorded as
\* failed in the result map.
C19_SplitContinues ==
    (last.op = "split" /\ calls # << >> /\ calls[1].ok) =>
        /\ \A v \in Listed : ProcessedValue(v)
        /\ \A i \in CallIndex :
              ~calls[i].ok =>
                  calls[i].m \in DOMAIN last.ret /\ last.ret[calls[i].m] = FALSE

\* C20: a split leaves the measurement as it was and issues no drop or delete;
\* when no call raised, each tag value v carried by rows of the measurement
\* gets one batch written to {measurement}_v, holding one point per row that
\* carries v, namely the point ExpectedSplit describes, and is recorded true.
C20_SplitRows ==
    last.op = "split" =>
        /\ store[last.measurement] = pre[last.measurement]
        /\ \A i \in CallIndex : ~IsDestructive(calls[i])
        /\ ~SomeCallRaised =>
              \A v \in TagValues :
                  Matching(v) # {} =>
                      /\ Cardinality(BatchesTo(NewName(v))) = 1
                      /\ \A k \in BatchesTo(NewName(v)) :
                            /\ Len(written[k].points) = Cardinality(Matching(v))
                            /\ {written[k].points[i] : i \in DOMAIN written[k].points}
                                  = {ExpectedSplit(r, NewName(v)) : r \in Matching(v)}
                      /\ NewName(v) \in DOMAIN last.ret
                      /\ last.ret[NewName(v)] = TRUE

\* a split by a marked tag over rows of both values, one of them carrying a
\* second tag, with both sub-measurements recorded true
C20_Witness ==
    /\ last.op = "split" /\ last.tag_key = "tag_loc" /\ ~SomeCallRaised
    /\ Cardinality(Matching("k")) >= 2 /\ Matching("h") # {}
    /\ BothOld \in Matching("k")
    /\ last.ret[NewName("k")] = TRUE /\ last.ret[NewName("h")] = TRUE
    /\ Len(written) = 2

-----------------------------------------------------------------------------
(* Algebraic laws of split and merge                                       *)

\* C21: when every row of the measurement carries the split tag, splitting it
\* by that tag and merging the split outputs into one target leaves a target
\* that holds as many rows as the measurement.
C21_RoundTripCount ==
    (/\ last.op = "merge_back"
     /\ \A r \in store["a"] : last.split_key \in DOMAIN r.tags)
    => Cardinality(store["m"]) = Cardinality(store["a"])

\* the rows of a measurement with the source_measurement tag left out
Content(rows) ==
    {[time   |-> r.time,
      fields |-> r.fields,
      tags   |-> [t \in DOMAIN r.tags \ {"source_measurement"} |-> r.tags[t]]] : r \in rows}

\* C22: merging a and b into m and then m and c into m2 leaves in m2 the same
\* rows (time, fields, tags other than source_measurement) as merging a, b and
\* c directly leaves in m3.
C22_MergeAssociative ==
    (last.op = "merge" /\ last.target = "m3") =>
        Content(store["m2"]) = Content(store["m3"])

\* the measurements the invocation fetched, in the order of the fetches
FetchedNames ==
    LET fetches == SelectSeq(calls, LAMBDA c : c.kind = "select_all")
    IN  [i \in 1..Len(fetches) |-> fetches[i].m]

\* the listed names whose lower-cased form contains the lower-cased pattern
ExpectedMatching ==
    SelectSeq(ShowMeasurements(pre),
              LAMBDA m : \E i \in 1..(Len(m) - Len(last.pattern) + 1) :
                            SubSeq(Lower(m), i, i + Len(last.pattern) - 1)
                                = Lower(last.pattern))

\* C23: consolidate-by-pattern fetches and merges into the target exactly the
\* listed measurements whose lower-cased name contains the lower-cased pattern,
\* in the order of the listing, as long as no call raises; when no listed name
\* matches it returns False, writes nothing and leaves the store as it was.
C23_ConsolidateMatching ==
    (last.op = "consolidate" /\ calls[1].ok) =>
        /\ ExpectedMatching = << >> =>
              /\ last.ret = FALSE
              /\ written = << >>
              /\ store = pre
              /\ Len(calls) = 1
        /\ (ExpectedMatching # << >> /\ ~SomeCallRaised) =>
              /\ last.ret = TRUE
              /\ FetchedNames = ExpectedMatching
              /\ [i \in 1..Len(written) |-> written[i].source] = ExpectedMatching
              /\ \A i \in 1..Len(written) :
                    \A j \in 1..Len(written[i].points) :
                        written[i].points[j].measurement = last.target
        /\ \A i \in 1..Len(FetchedNames) :
              i <= Len(ExpectedMatching) /\ FetchedNames[i] = ExpectedMatching[i]

\* a pattern in upper case matched three listed measurements, one of them named
\* with an upper-case letter, and all three were merged into the target
C23_Witness ==
    /\ last.op = "consolidate"
    /\ last.pattern = "A"
    /\ last.ret = TRUE
    /\ FetchedNames = <<"B_raw", "a", "a_agg_hourly">>
    /\ Len(written) = 3

\* C25: whenever a store query raises during the inventory of a measurement,
\* thorough or fast, the snapshot returned is the failure value: the name, no
\* points, no fields, no tags, no sample and "Error" as last entry.
C25_FailureValue ==
    (last.op \in {"analyze", "analyze_fast"} /\ SomeCallRaised) =>
        last.ret = CreateEmptyAnalysis(last.measurement)

RECURSIVE ColumnSum(_, _)
\* the counts of the rows that carry each field of `keys`, added up
ColumnSum(rows, keys) ==
    IF keys = {} THEN 0
    ELSE LET f == CHOOSE k \in keys : TRUE
         IN  Cardinality({r \in rows : f \in DOMAIN r.fields}) + ColumnSum(rows, keys \ {f})

\* C28: in both variants of the inventory, once the COUNT query has returned,
\* total_points is the sum of the per-field counts of the measurement, the text
\* column 'time' of the count row adding nothing; a measurement without rows
\* has 0 points and, when no query raises, "No data" as its last entry.
C28_TotalPoints ==
    (last.op \in {"analyze", "analyze_fast"} /\ calls[1].ok) =>
        LET rows == pre[last.measurement]
        IN  /\ last.ret.total_points = ColumnSum(rows, UNION {DOMAIN r.fields : r \in rows})
            /\ rows = {} => last.ret.total_points = 0
            /\ (rows = {} /\ ~SomeCallRaised) =>
                  /\ last.ret.last_entry = "No data"
                  /\ last.ret.fields = << >>
                  /\ last.ret.sample_data = << >>

\* the thorough inventory counted a measurement whose rows carry one or two
\* fields: it has more points than rows
C28_Witness ==
    /\ last.op = "analyze"
    /\ calls[1].ok
    /\ TwoFields \in pre[last.measurement]
    /\ Cardinality(pre[last.measurement]) = 3
    /\ last.ret.total_points = 4

\* the snapshot of a name when no query raises
Snapshot(n) == AnalyzeMeasurementFast(Context(store, backups, {}), n).ret

\* the names whose task met a raising query
FaultedNames == {par.measurements[i] : i \in {j \in TaskIndex : par.task[j].faulted}}

\* C24: the parallel analysis returns only when every task has run and been
\* collected; the mapping it returns has one entry per distinct name of the
\* input list, each entry carrying its own name, and, when no query raises, each
\* entry is the snapshot of its name, whatever the order in which the tasks
\* started, completed and were collected.
C24_ParallelResult ==
    par.phase = "returned" =>
        /\ \A i \in TaskIndex : par.status[i] = "collected"
        /\ last.ret = par.results
        /\ DOMAIN par.results = ListSet(par.measurements)
        /\ \A n \in DOMAIN par.results : par.results[n].name = n
        /\ FaultedNames = {} => \A n \in DOMAIN par.results : par.results[n] = Snapshot(n)

\* five tasks over three names ran on two workers without a failure and the
\* mapping with the three snapshots was returned
C24_Witness ==
    /\ par.phase = "returned"
    /\ Len(par.measurements) = 5
    /\ par.max_workers = 2
    /\ FaultedNames = {}
    /\ DOMAIN last.ret = {"a", "b", "c"}
    /\ last.ret["a"].total_points = 3

\* C26: when a query raises in the task of one measurement, the mapping returned
\* still has an entry for every name of the list, and the entry of every other
\* name is the snapshot it has when nothing raises.
C26_FailureIsolated ==
    (par.phase = "returned" /\ FaultedNames # {}) =>
        /\ DOMAIN par.results = ListSet(par.measurements)
        /\ \A n \in DOMAIN par.results \ FaultedNames : par.results[n] = Snapshot(n)

\* the task of "a" met a raising query and left a snapshot other than the one
\* without failure; "b" and "c" were analysed by other tasks
C26_Witness ==
    /\ par.phase = "returned"
    /\ FaultedNames = {"a"}
    /\ par.task[1].faulted
    /\ store["a"] # {}
    /\ par.results["a"] # Snapshot("a")
    /\ DOMAIN par.results = {"a", "b", "c"}

\* C27: at every moment of a parallel analysis the number of tasks running is
\* at most max_workers (4 when the caller gives none), however long the list.
C27_BoundedWorkers ==
    par.phase # "idle" => Cardinality(Running(par)) <= par.max_workers

\* with the default pool size and five names submitted, four tasks run and the
\* fifth waits in the queue
C27_Witness ==
    /\ par.phase = "running"
    /\ par.max_workers = DefaultMaxWorkers
    /\ Cardinality(Running(par)) = DefaultMaxWorkers
    /\ \E i \in TaskIndex : par.status[i] = "queued"

\* the analyses kept by the classifier, by name
AnalysisOf(n) == last.analyses[CHOOSE i \in 1..Len(last.analyses) : last.analyses[i].name = n]

\* C29: the classifier lists a measurement as low-data exactly when its
\* total_points is below min_points, and as mixed-topic exactly when it has
\* more than 3 tag keys and more than 100 points; total_points is the number
\* of points of the measurement when no query raises. Neither test looks at
\* the other.
C29_Classifier ==
    last.op = "classify" =>
        /\ Len(last.analyses) = Len(last.listing)
        /\ \A i \in 1..Len(last.listing) : last.analyses[i].name = last.listing[i]
        /\ \A n \in ListSet(last.listing) :
              /\ n \in ListSet(last.ret.low_data)
                    <=> AnalysisOf(n).total_points < last.min_points
              /\ n \in ListSet(last.ret.mixed_topics)
                    <=> (/\ Cardinality(DOMAIN AnalysisOf(n).tags) > 3
                         /\ AnalysisOf(n).total_points > 100)
              /\ ~SomeCallRaised =>
                    /\ AnalysisOf(n).total_points = Cardinality(pre[n])
                    /\ DOMAIN AnalysisOf(n).tags = UNION {DOMAIN r.tags : r \in pre[n]}
        /\ ListSet(last.ret.low_data) \cup ListSet(last.ret.mixed_topics)
              \subseteq ListSet(last.listing)

\* with a threshold of 200 a measurement of 101 points and four tag keys is
\* both low-data and mixed-topic, while one of 100 points and four tag keys and
\* one of 101 points and one tag key are low-data only
C29_Witness ==
    /\ last.op = "classify"
    /\ ~SomeCallRaised
    /\ last.min_points = 200
    /\ pre["temp_kitchen"] = Series(101, FourTags)
    /\ pre["cpu_load"] = Series(100, FourTags)
    /\ last.ret.mixed_topics = <<"temp_kitchen">>
    /\ {"temp_kitchen", "cpu_load"} \subseteq ListSet(last.ret.low_data)

\* are two names similar: both longer than 3 characters once lower-cased and
\* stripped of '_' and '-', and one contained in the other or sharing more than
\* seven tenths of the characters of the longer
Alike(n, o) ==
    LET cn == Clean(n)
        co == Clean(o)
    IN  /\ Len(cn) > 3 /\ Len(co) > 3
        /\ \/ \E i \in 1..Len(co) : i + Len(cn) - 1 <= Len(co) /\ SubSeq(co, i, i + Len(cn) - 1) = cn
           \/ \E i \in 1..Len(cn) : i + Len(co) - 1 <= Len(cn) /\ SubSeq(cn, i, i + Len(co) - 1) = co
           \/ 10 * Cardinality(Chars(cn) \cap Chars(co))
                 > 7 * (IF Len(cn) > Len(co) THEN Len(cn) ELSE Len(co))

\* the store of the scenario: temp_kitchen with 12 points, temp_kitchen_old with 3
Scenario ==
    /\ ListSet(last.listing) = {"temp_kitchen", "temp_kitchen_old"}
    /\ Cardinality(pre["temp_kitchen"]) = 12
    /\ Cardinality(pre["temp_kitchen_old"]) = 3
    /\ last.min_points = 10
    /\ ~SomeCallRaised

\* C30: the duplicate list holds, once each, exactly the listed names that are
\* similar to another listed name; for temp_kitchen with 12 points and
\* temp_kitchen_old with 3 points under threshold 10, low-data is
\* temp_kitchen_old alone and both names are duplicates.
C30_Duplicates ==
    last.op = "classify" =>
        /\ ListSet(last.ret.duplicates) =
              {n \in ListSet(last.listing) :
                  \E o \in ListSet(last.listing) \ {n} : Alike(n, o)}
        /\ \A i, j \in 1..Len(last.ret.duplicates) :
              last.ret.duplicates[i] = last.ret.duplicates[j] => i = j
        /\ Scenario =>
              /\ last.ret.low_data = <<"temp_kitchen_old">>
              /\ last.ret.duplicates = <<"temp_kitchen", "temp_kitchen_old">>

\* the scenario was classified
C30_Witness ==
    /\ last.op = "classify"
    /\ Scenario
    /\ last.ret.duplicates = <<"temp_kitchen", "temp_kitchen_old">>
    /\ last.ret.mixed_topics = << >>

RECURSIVE Stripped(_)
\* a name in lower case without its '_' and '-'
Stripped(name) ==
    IF name = "" THEN ""
    ELSE LET c == SubSeq(name, 1, 1)
         IN  (IF c \in {"_", "-"} THEN "" ELSE LowerChar(c)) \o Stripped(SubSeq(name, 2, Len(name)))

\* C31: the similarity test gives the same answer for (a, b) and for (b, a),
\* and answers no whenever one of the two names, lower-cased and stripped of
\* underscores and dashes, has 3 characters or fewer.
C31_SimilarSymmetric ==
    last.op = "similar" =>
        /\ last.ret = last.swapped
        /\ (Len(Stripped(last.name1)) <= 3 \/ Len(Stripped(last.name2)) <= 3) => ~last.ret

\* the longer name was given first and contains the shorter one: similar both ways
C31_Witness ==
    /\ last.op = "similar"
    /\ last.name1 = "temp_kitchen_old"
    /\ last.name2 = "temp_kitchen"
    /\ last.ret
    /\ last.swapped

\* the operations that return a boolean
BooleanOperations ==
    {"backup", "delete", "rename", "aggregate_old_data", "merge", "consolidate"}

\* the calls of the invocation that raised
RaisedCalls == {i \in CallIndex : ~calls[i].ok}

\* the result map has no entry, or the entry False, for name n
NotReportedDone(n) == n \notin DOMAIN last.ret \/ ~last.ret[n]

Mentions(field, words) ==
    \E w \in words : \E i \in 1..Len(field) :
        i + Len(w) - 1 <= Len(field) /\ Lower(SubSeq(field, i, i + Len(w) - 1)) = w

\* C33: the reducer of a field is SUM exactly when its lower-cased name
\* contains count, total or sum; MAX exactly when it contains none of those but
\* max, peak or highest; MIN exactly when it contains none of those six but min
\* or lowest; MEAN exactly when it contains none of the eight. cpu_total_count
\* gets SUM, cpu_temp_max gets MAX and cpu_usage gets MEAN.
C33_ReducerChoice ==
    last.op = "reducer" =>
        LET sum == Mentions(last.field, {"count", "total", "sum"})
            max == Mentions(last.field, {"max", "peak", "highest"})
            min == Mentions(last.field, {"min", "lowest"})
        IN  /\ last.ret = "SUM"  <=> sum
            /\ last.ret = "MAX"  <=> ~sum /\ max
            /\ last.ret = "MIN"  <=> ~sum /\ ~max /\ min
            /\ last.ret = "MEAN" <=> ~sum /\ ~max /\ ~min
            /\ last.field = "cpu_total_count" => last.ret = "SUM"
            /\ last.field = "cpu_temp_max" => last.ret = "MAX"
            /\ last.field = "cpu_usage" => last.ret = "MEAN"

\* a field whose name carries keywords of all three reducers gets SUM
C33_Witness ==
    /\ last.op = "reducer"
    /\ last.field = "Peak_lowest_Sum"
    /\ last.ret = "SUM"

\* the granularity the thresholds assign to n
Granularity(n) ==
    IF n > 50000 THEN "monthly"
    ELSE IF n > 10000 THEN "weekly"
    ELSE IF n > 1000 THEN "daily"
    ELSE "hourly"

\* the granularities handed to aggregate_old_data for measurement m, read off
\* the count queries on its aggregation targets
Delegated(m) ==
    {g \in IntervalKeys :
        \E i \in CallIndex : calls[i].kind = "count" /\ calls[i].m = AggregatedName(m, g)}

\* C34 as stated: the age-based batch clean with action 'aggregate' picks the
\* granularity from the number n of rows older than the cutoff: monthly when
\* n > 50000, else weekly when n > 10000, else daily when n > 1000, else hourly;
\* exactly 50000, 10000 and 1000 give weekly, daily and hourly.
C34_GranularityByRows ==
    /\ last.op = "density" => last.ret = Granularity(last.old_count)
    /\ (last.op = "filter_and_clean_by_age" /\ last.action = "aggregate"
            /\ RaisedCalls = {}) =>
          \A m \in ListSet(last.measurements) :
              LET n == Cardinality(Older(pre[m], last.cutoff))
              IN  n >= 1 => Delegated(m) = {Granularity(n)}

\* the tags of item i of the analysed measurements
TagsOf(i) == Get(last.measurements[i].analysis, "tags", << >>)

\* the items grouped under a tag key, and under one of its values
UnderKey(k) == {i \in DOMAIN last.measurements : k \in DOMAIN TagsOf(i)}

UnderValue(k, v) == {i \in UnderKey(k) : v \in ListSet(TagsOf(i)[k])}

\* item i has data: its analysis carries a last entry other than 'No data'
HasData(i) ==
    /\ "last_entry" \in DOMAIN last.measurements[i].analysis
    /\ last.measurements[i].analysis.last_entry \notin {"", "No data"}

RECURSIVE SumPoints(_)
SumPoints(I) ==
    IF I = {} THEN 0
    ELSE LET i == CHOOSE x \in I : TRUE
         IN  Get(last.measurements[i].analysis, "total_points", 0) + SumPoints(I \ {i})

\* the statistics accumulated over the items I
StatsOver(I) ==
    LET dated == {i \in I : HasData(i)}
        entry(i) == last.measurements[i].analysis.last_entry
    IN  [count |-> Cardinality(I),
         total_points |-> SumPoints(I),
         latest_entry |->
             IF dated = {} THEN None
             ELSE entry(CHOOSE i \in dated :
                          \A j \in dated : ~StrGreater(entry(j), entry(i)))]

\* the names listed in a node
Members(node) == {node.measurements[i].name : i \in DOMAIN node.measurements}

\* C35 as stated: in the hierarchy by tags, the node of a tag key and the node
\* of each of its values carry the count, the total points and the latest last
\* entry of the measurements grouped under them, the latest being the greatest
\* last entry of those that have data; a measurement without tags is in no node.
C35_TagStats ==
    last.op = "group_by_tags" =>
        /\ DOMAIN last.ret = UNION {DOMAIN TagsOf(i) : i \in DOMAIN last.measurements}
        /\ \A k \in DOMAIN last.ret :
              /\ last.ret[k].stats = StatsOver(UnderKey(k))
              /\ DOMAIN last.ret[k].children =
                     UNION {ListSet(TagsOf(i)[k]) : i \in UnderKey(k)}
              /\ \A v \in DOMAIN last.ret[k].children :
                    /\ last.ret[k].children[v].stats = StatsOver(UnderValue(k, v))
                    /\ Members(last.ret[k].children[v]) =
                           {last.measurements[i].name : i \in UnderValue(k, v)}
        /\ \A i \in DOMAIN last.measurements :
              DOMAIN TagsOf(i) = {} =>
                  \A k \in DOMAIN last.ret :
                      /\ last.measurements[i].name \notin Members(last.ret[k])
                      /\ \A v \in DOMAIN last.ret[k].children :
                            last.measurements[i].name \notin Members(last.ret[k].children[v])

\* keywords tried as additions to the table of a topic
ExtraKeywords == {"kitchen", "b", "cpu", "zzz", "_"}

\* the table with one keyword added to one topic
WithKeyword(topics, topic, keyword) == [topics EXCEPT ![topic] = @ \cup {keyword}]

\* the names grouped under a topic by a grouping
GroupOf(groups, topic) == IF topic \in DOMAIN groups THEN Members(groups[topic]) ELSE {}

\* the topic has a keyword contained in the lower-cased name
TopicMatches(topic, name) == \E keyword \in Topics[topic] : Mentions(name, {keyword})

\* C36: in the grouping by topics a measurement is listed under a topic exactly
\* when one of the topic's keywords is contained in its lower-cased name, and
\* under 'other' exactly when no topic matches, so it is listed in at least one
\* group; with a keyword added to the table of a topic, the group of that topic
\* still lists every measurement it listed before.
C36_TopicGroups ==
    last.op = "group_by_topics" =>
        /\ DOMAIN last.ret \subseteq DOMAIN Topics \cup {"other"}
        /\ \A i \in DOMAIN last.measurements :
              LET name == last.measurements[i].name
              IN  /\ \A topic \in DOMAIN Topics :
                        name \in GroupOf(last.ret, topic) <=> TopicMatches(topic, name)
                  /\ name \in GroupOf(last.ret, "other") <=>
                        ~\E topic \in DOMAIN Topics : TopicMatches(topic, name)
                  /\ \E topic \in DOMAIN last.ret : name \in Members(last.ret[topic])
        /\ \A topic \in DOMAIN Topics, keyword \in ExtraKeywords :
              GroupOf(last.ret, topic) \subseteq
                  GroupOf(GroupByTopics(last.measurements,
                                        WithKeyword(Topics, topic, keyword)), topic)

\* a name written in upper case is listed under 'system', one matching keywords
\* of two topics under both, and neither under 'other'
C36_Witness ==
    /\ last.op = "group_by_topics"
    /\ "CPU_Load" \in GroupOf(last.ret, "system")
    /\ "temp_kitchen" \in GroupOf(last.ret, "sensor") \cap GroupOf(last.ret, "home")
    /\ "other" \notin DOMAIN last.ret

\* C37 as stated: on the store the classifier has just read and with the same
\* threshold, the measurements clean_low_data_measurements acts on, the keys
\* of its result map, are the measurements the classifier listed as low-data.
C37_CleanAgreesWithClassifier ==
    last.op = "clean_low_data" => DOMAIN last.ret = ListSet(last.low_data)

\* C38: rename issues the drop of the old measurement only after the write of
\* all fetched rows under the new name has returned without error; when a fetch
\* or the write raises, no drop is issued, the old measurement keeps its rows
\* and rename returns False.
C38_DropAfterWrite ==
    last.op = "rename" =>
        /\ \A i \in CallIndex :
              calls[i].kind = "drop" =>
                  /\ calls[i].m = last.old_name
                  /\ \E j \in 1..(i - 1) :
                        /\ calls[j].kind = "write"
                        /\ calls[j].ok
                        /\ calls[j].m = last.new_name
                        /\ calls[j].n = Cardinality(pre[last.old_name])
        /\ (\E i \in CallIndex : calls[i].kind \in {"select_all", "write"} /\ ~calls[i].ok) =>
              /\ ~\E i \in CallIndex : calls[i].kind = "drop"
              /\ store[last.old_name] = pre[last.old_name]
              /\ last.ret = FALSE

\* a rename to another name dropped the old measurement after its write
C38_Witness ==
    /\ last.op = "rename"
    /\ last.old_name # last.new_name
    /\ \E i \in CallIndex : calls[i].kind = "drop" /\ calls[i].ok
    /\ \E i \in CallIndex : calls[i].kind = "write" /\ calls[i].n = 3

\* C39 as stated: whenever rename reports success, the store holds under the
\* new name every row the old measurement held when the rename started, and the
\* old measurement no longer exists.
C39_RenameKeepsRows ==
    (last.op = "rename" /\ last.ret) =>
        /\ pre[last.old_name] \subseteq store[last.new_name]
        /\ store[last.old_name] = {}

\* the rows of `rows` at or after the cutoff
NotOlder(rows, cutoff) == {r \in rows : r.time >= cutoff}

\* C40: aggregate_old_data and filter_and_clean_by_age never remove a row whose
\* time is at or after the cutoff: for every measurement the rows at or after
\* the cutoff are the same after the operation as before it, whether it
\* succeeded or failed.
C40_RecentRowsKept ==
    last.op \in {"aggregate_old_data", "filter_and_clean_by_age"} =>
        \A m \in Measurements :
            NotOlder(store[m], last.cutoff) = NotOlder(pre[m], last.cutoff)

\* an age-based delete removed the older rows of a measurement and kept its
\* row at the cutoff
C40_Witness ==
    /\ last.op = "filter_and_clean_by_age"
    /\ last.action = "delete"
    /\ last.cutoff = AtCutoff.time
    /\ AtCutoff \in store["a"]
    /\ store["a"] # pre["a"]
    /\ \E i \in CallIndex : calls[i].kind = "delete_older" /\ calls[i].ok

====
